---- MODULE Spec2Model ----
(***************************************************************************)
(* Model of the WhatsApp admin panel client (PanelRespuestasWhats):        *)
(*   - SocketService   (src/js/socket.js)      the push channel client     *)
(*   - StateManager    (src/unnamed/part_000)  the state store             *)
(*   - ApiService      (src/unnamed/part_001)  the backend client          *)
(*   - UIManager / WhatsAppAdminApp (src/js/ui.js)  sends, voice capture   *)
(* Each component has its own specification (SpecSocket, SpecStore,        *)
(* SpecApi, SpecPanel, SpecLive) over the shared variables; a component's  *)
(* actions leave the other components' variables unchanged. Single store   *)
(* operations and pure functions are called on their own in SpecUpsert,    *)
(* SpecFilter, SpecThread, SpecMapper and SpecEntry. Audio playback        *)
(* (SpecAudio), overlapping list refreshes and sends (SpecRefresh,         *)
(* SpecSendRefresh), the voice recording on its own (SpecVoice) and the    *)
(* elements of the rendered thread (SpecRendered) have theirs too.         *)
(***************************************************************************)
EXTENDS Integers, Sequences, FiniteSets, TLC

(***************************************************************************)
(* Bounds of the model.                                                    *)
(***************************************************************************)
\* Socket objects io() may create in one run (init() is not taken beyond it).
MaxSockets == 7
\* Reconnection timers (setTimeout) that may be pending at once.
MaxTimers == 5
\* Terminal "Max reconnection attempts reached" errors counted.
MaxTermErrors == 2
\* Distinct callbacks offered to subscribe().
NumCallbacks == 2
\* Subscriptions held at once.
MaxSubscribers == 2
\* Contacts (phone numbers) the backend may report.
NumContacts == 1
\* Messages in a non-empty history of a backend answer.
HistoryLen == 1
\* List requests of loadConversations in flight at once.
MaxLoadsInFlight == 1
\* Text sends in flight at once.
MaxTextInFlight == 1
\* The operator sends no further text once a thread holds this many messages.
MaxMessages == 1
\* MediaRecorder objects created in one run.
MaxRecorders == 1
\* getUserMedia requests pending at once.
MaxMicPending == 1
\* Microphone streams with live tracks at once.
MaxStreams == 2
\* Contacts that send live messages.
NumLiveContacts == 2
\* fetchConversationInfo calls of handleNewMessage in flight at once.
MaxInfoInFlight == 1
\* No further live message is taken once the store holds this many conversations.
MaxLiveConversations == 3
\* Distinct conversation ids passed to updateConversation.
MaxUpsertIds == 2
\* Conversations in the store getFilteredConversations is called on.
MaxFilterConversations == 2
\* Messages in the thread renderConversationThread is called on.
MaxThreadMessages == 3
\* Largest wire code passed to mapMessageData.
MaxTypo == 9
\* Events SocketService.emit hands to the socket in one run.
MaxEmits == 1
\* Audio elements in the document.
NumAudio == 3
\* getUserMedia requests pending at once, and MediaRecorder objects created,
\* in one run of the voice recording on its own.
MaxVoicePending == 2
MaxVoiceRecorders == 2
\* loadConversations calls in one run of the overlapping refreshes.
MaxRefreshes == 3
\* Playback positions of an audio element: 0 up to this, its end.
MaxAudioTime == 2

(***************************************************************************)
(* Program constants.                                                      *)
(***************************************************************************)
\* SocketService.maxRetries
maxRetries == 5

VARIABLES
    \* ---- SocketService --------------------------------------------------
    socket,         \* this.socket: "null" or the status of the socket it references
    orphans,        \* sockets created by an earlier init(), no longer referenced by
                    \* this.socket, listeners still registered: status -> how many
    retryCount,     \* this.retryCount
    reconnTimers,   \* setTimeout(() => this.init()) callbacks pending
    termErrors,     \* times onError received 'Max reconnection attempts reached'
    lastEvt,        \* the socket handler or service method that ran last
    prevRetry,      \* retryCount before that handler ran
    lastEmit,       \* the event SocketService.emit was called with last
    wire,           \* the events the sockets sent to the server, in order
    sendBuffer,     \* the events the socket this.socket references holds back
                    \* until it is connected (socket.io's sendBuffer)
    \* ---- StateManager ---------------------------------------------------
    state,          \* this.state
    subscribers,    \* this.subscribers: callbacks in subscription order
    notifyLog,      \* the callback invocations the latest store operation made, in order
    escaped,        \* whether the latest store operation threw to its caller
    lastOp,         \* the latest store operation
    lastUpdate,     \* its argument when it was a setState
    \* ---- ApiService (one call at a time, for the claims about its results) --
    apiCall,        \* the operation called and what the backend answered
    apiResult,      \* what the returned promise settled to
    \* ---- UIManager / WhatsAppAdminApp ------------------------------------
    loadsInFlight,  \* fetchConversations() calls of loadConversations awaiting an answer
    textInFlight,   \* sendIntervention calls of sendMessage awaiting an answer: the
                    \* conversation captured and isManualMode at the time of the call
    isRecording,    \* voiceRecording.isRecording
    mediaRecorder,  \* voiceRecording.mediaRecorder: 0 (null) or a recorder
    audioChunks,    \* voiceRecording.audioChunks: for each chunk, the recorder it came from
    timerInterval,  \* voiceRecording.timerInterval is set
    liveIntervals,  \* setInterval timers of startRecordingTimer not cleared
    recorders,      \* the MediaRecorder objects created so far: status, cancelled
    micPending,     \* getUserMedia() calls of startVoiceRecording awaiting an answer
    readers,        \* FileReader.readAsDataURL in progress: the chunks of each blob
    voiceInFlight,  \* sendVoiceMessage calls awaiting an answer: the conversation
                    \* captured, the audio sent and isManualMode at the time of the call
    streamsHeld,    \* MediaStreams getUserMedia resolved to whose tracks are not stopped
    \* ---- WhatsAppAdminApp.handleNewMessage and the thread view -----------
    infoInFlight,   \* fetchConversationInfo calls of handleNewMessage awaiting an
                    \* answer: the number and typo of the event
    handled,        \* the event the latest finished handleNewMessage was run for,
                    \* and how it ended
    atBottom,       \* isScrolledToBottom(): the thread is scrolled to its end
    scrollPending,  \* a scrollToBottom() is scheduled (requestAnimationFrame, setTimeout)
    indicator,      \* a .new-message-indicator element is in the document
    \* ---- single operations and functions, called on their own -----------
    upsert,         \* the latest updateConversation call: its argument, and whether
                    \* the call before it was the same call (nth = 2)
    fnCall,         \* the function called last and its arguments
    fnResult,       \* what that call returned or threw
    \* ---- UIManager: audio playback --------------------------------------
    audioPaused,    \* for each audio element of the document: its paused attribute
    audioTime,      \* for each audio element: its currentTime
    audioLast,      \* the latest click on a play button: the element it named and
                    \* the elements that were not paused at the click
    \* ---- WhatsAppAdminApp: overlapping refreshes and sends ---------------
    loadReqs,       \* the loadConversations calls awaiting their answer, each by
                    \* the number of its request in issue order
    loadSeq,        \* list requests issued so far
    landed,         \* the latest successful list answer: its request, its data and
                    \* the requests that still awaited their answer
    lastSend,       \* the latest sendMessage that got its answer: the number the
                    \* request was sent to and whether it succeeded
    liveBlobs,      \* blob URLs URL.createObjectURL returned that are not revoked
    \* ---- the rendered thread (elements.threadArea) -----------------------
    threadDom,      \* whether it holds a '.message-container', and the messages
                    \* whose elements the container holds, in document order
    delivered       \* the last step handled a message (new-message event or a
                    \* successful send) for the conversation that is active

emitVars == <<lastEmit, wire, sendBuffer>>

sockVars == <<socket, orphans, retryCount, reconnTimers, termErrors, lastEvt, prevRetry,
              emitVars>>

storeVars == <<state, subscribers, notifyLog, escaped, lastOp, lastUpdate>>

apiVars == <<apiCall, apiResult>>

voiceVars == <<isRecording, mediaRecorder, audioChunks, timerInterval, liveIntervals,
               recorders, micPending, readers, voiceInFlight, streamsHeld>>

panelVars == <<loadsInFlight, textInFlight, voiceVars>>

viewVars == <<atBottom, scrollPending, indicator>>

liveVars == <<infoInFlight, handled, viewVars>>

callVars == <<upsert, fnCall, fnResult>>

audioVars == <<audioPaused, audioTime, audioLast>>

refreshVars == <<loadReqs, loadSeq, landed, lastSend, liveBlobs>>

domVars == <<threadDom, delivered>>

vars == <<sockVars, storeVars, apiVars, panelVars, liveVars, callVars, audioVars,
          refreshVars, domVars>>

otherThanSocket == <<storeVars, apiVars, panelVars, liveVars, callVars, audioVars,
    refreshVars, domVars>>
otherThanStore == <<sockVars, apiVars, panelVars, liveVars, callVars, audioVars,
    refreshVars, domVars>>
otherThanApi == <<sockVars, storeVars, panelVars, liveVars, callVars, audioVars,
    refreshVars, domVars>>
\* The panel's actions go through the store; they leave these alone.
otherThanPanel == <<sockVars, apiVars, liveVars, callVars, audioVars,
    refreshVars, domVars>>
\* So do the actions of handleNewMessage and the thread view.
otherThanLive == <<sockVars, apiVars, panelVars, callVars, audioVars,
    refreshVars, domVars>>
\* What a call of one store operation or one function leaves alone.
otherThanCalls == <<sockVars, apiVars, panelVars, liveVars, audioVars,
    refreshVars, domVars>>
\* What a click on an audio control leaves alone.
otherThanAudio == <<sockVars, storeVars, apiVars, panelVars, liveVars, callVars,
    refreshVars, domVars>>
\* What overlapping refreshes and sends leave alone.
otherThanRefresh == <<sockVars, apiVars, loadsInFlight, voiceVars, liveVars, callVars,
    audioVars, domVars>>
\* What the handlers followed up to the rendered thread leave alone.
otherThanDom == <<sockVars, apiVars, loadsInFlight, voiceVars, viewVars, callVars,
    audioVars, refreshVars>>

(***************************************************************************)
(* SocketService                                                           *)
(***************************************************************************)
SockStatus == {"connecting", "connected", "disconnected"}

\* Sockets io() has created that still have this service's listeners.
NumSockets == (IF socket = "null" THEN 0 ELSE 1)
              + orphans["connecting"] + orphans["connected"] + orphans["disconnected"]

\* Sockets with this service's listeners that are connected right now.
NumConnected == (IF socket = "connected" THEN 1 ELSE 0) + orphans["connected"]

\* constructor: socket = null, retryCount = 0; WhatsAppAdminApp.initializeSocket
\* then calls init() once, which creates the first socket.
SocketInit ==
    /\ socket = "connecting"
    /\ orphans = [s \in SockStatus |-> 0]
    /\ retryCount = 0
    /\ reconnTimers = 0
    /\ termErrors = 0
    /\ lastEvt = "init"
    /\ prevRetry = 0
    /\ lastEmit = "none"
    /\ wire = <<>>
    /\ sendBuffer = <<>>

\* init(): this.socket = io(API_BASE); setupEventListeners(). The socket that
\* this.socket referenced before is neither closed nor stripped of its listeners.
\* The new socket holds nothing back.
SocketServiceInit ==
    /\ socket' = "connecting"
    /\ sendBuffer' = <<>>
    /\ orphans' = IF socket = "null" THEN orphans
                  ELSE [orphans EXCEPT ![socket] = @ + 1]

\* handleReconnection() with the ceiling test off by one (<= for <).
HandleReconnectionOffByOne ==
    IF retryCount <= maxRetries
    THEN /\ retryCount' = retryCount + 1
         /\ reconnTimers' = reconnTimers + 1
         /\ termErrors' = termErrors
    ELSE /\ retryCount' = retryCount
         /\ reconnTimers' = reconnTimers
         /\ termErrors' = termErrors + 1

\* handleReconnection()
HandleReconnection ==
    IF retryCount < maxRetries
    THEN /\ retryCount' = retryCount + 1
         /\ reconnTimers' = reconnTimers + 1
         /\ termErrors' = termErrors
    ELSE /\ retryCount' = retryCount
         /\ reconnTimers' = reconnTimers
         /\ termErrors' = termErrors + 1

\* The connect listener without its reset of the counter.
OnConnectNoReset == retryCount' = retryCount

\* connect listener body: retryCount = 0; callbacks.onConnect()
OnConnect == retryCount' = 0

\* disconnect listener body: callbacks.onDisconnect(); handleReconnection()
OnDisconnect == HandleReconnection

\* Bound of the model: the handler's effects stay inside the counted ranges.
DisconnectInBounds ==
    IF retryCount < maxRetries THEN reconnTimers < MaxTimers
                               ELSE termErrors < MaxTermErrors

\* 'connect' delivered on the socket this.socket references. io() is called with
\* no options, so the library's automatic reconnection is on: a socket that lost
\* its connection may connect again by itself.
ConnectCurrent ==
    /\ socket \in {"connecting", "disconnected"}
    /\ socket' = "connected"
    /\ wire' = wire \o sendBuffer
    /\ sendBuffer' = <<>>
    /\ OnConnect
    /\ lastEvt' = "connect" /\ prevRetry' = retryCount
    /\ UNCHANGED <<orphans, reconnTimers, termErrors, lastEmit>>
    /\ UNCHANGED otherThanSocket

\* 'connect' delivered on a socket of an earlier init().
ConnectOrphan(st) ==
    /\ st \in {"connecting", "disconnected"}
    /\ orphans[st] > 0
    /\ orphans' = [orphans EXCEPT ![st] = @ - 1, !["connected"] = @ + 1]
    /\ OnConnect
    /\ lastEvt' = "connect" /\ prevRetry' = retryCount
    /\ UNCHANGED <<socket, reconnTimers, termErrors, emitVars>>
    /\ UNCHANGED otherThanSocket

\* 'disconnect' delivered on the socket this.socket references.
DisconnectCurrent ==
    /\ socket = "connected"
    /\ DisconnectInBounds
    /\ socket' = "disconnected"
    /\ OnDisconnect
    /\ lastEvt' = "disconnect" /\ prevRetry' = retryCount
    /\ UNCHANGED <<orphans, emitVars>>
    /\ UNCHANGED otherThanSocket

\* 'disconnect' delivered on a socket of an earlier init().
DisconnectOrphan ==
    /\ orphans["connected"] > 0
    /\ DisconnectInBounds
    /\ orphans' = [orphans EXCEPT !["connected"] = @ - 1, !["disconnected"] = @ + 1]
    /\ OnDisconnect
    /\ lastEvt' = "disconnect" /\ prevRetry' = retryCount
    /\ UNCHANGED <<socket, emitVars>>
    /\ UNCHANGED otherThanSocket

\* disconnect(): socket.disconnect() on the socket this.socket references, then
\* this.socket = null. socket.disconnect() on a connected socket emits its
\* 'disconnect' event before it returns, so the disconnect listener runs; the
\* socket is closed for good and does not reconnect by itself.
Disconnect ==
    IF socket = "null"
    THEN UNCHANGED sockVars
    ELSE /\ socket' = "null"
         /\ sendBuffer' = <<>>
         /\ UNCHANGED <<orphans, lastEmit, wire>>
         /\ IF socket = "connected"
            THEN /\ OnDisconnect
                 /\ lastEvt' = "disconnect" /\ prevRetry' = retryCount
            ELSE /\ lastEvt' = "close" /\ prevRetry' = retryCount
                 /\ UNCHANGED <<retryCount, reconnTimers, termErrors>>

\* A call of disconnect() by the owner of the service.
CallDisconnect ==
    /\ socket = "connected" => DisconnectInBounds
    /\ Disconnect
    /\ UNCHANGED otherThanSocket

\* The reconnection timer of handleReconnection fires: this.init().
ReconnectTimerFires ==
    /\ reconnTimers > 0
    /\ NumSockets < MaxSockets
    /\ reconnTimers' = reconnTimers - 1
    /\ SocketServiceInit
    /\ lastEvt' = "timer" /\ prevRetry' = retryCount
    /\ UNCHANGED <<retryCount, termErrors, lastEmit, wire>>
    /\ UNCHANGED otherThanSocket

\* The event names emit is called with.
Events == {"typing", "read"}

\* socket.emit(event, data) of the socket this.socket references: a connected
\* socket sends the event, any other holds it back until it is connected.
SocketEmit(event) ==
    IF socket = "connected"
    THEN wire' = Append(wire, event) /\ sendBuffer' = sendBuffer
    ELSE wire' = wire /\ sendBuffer' = Append(sendBuffer, event)

\* The test of emit without the connected part: this.socket
CanEmitWithAnySocket == socket # "null"

\* this.socket && this.socket.connected
CanEmit == socket = "connected"

\* emit(event, data)
Emit(event) ==
    /\ CanEmit => Len(wire) + Len(sendBuffer) < MaxEmits
    /\ lastEmit' = event
    /\ IF CanEmit THEN SocketEmit(event)
                  ELSE UNCHANGED <<wire, sendBuffer>>
    /\ lastEvt' = "emit" /\ prevRetry' = retryCount
    /\ UNCHANGED <<socket, orphans, retryCount, reconnTimers, termErrors>>
    /\ UNCHANGED otherThanSocket

(***************************************************************************)
(* StateManager                                                            *)
(***************************************************************************)
\* Callbacks a caller may pass to subscribe().
Callbacks == 1..NumCallbacks

\* activeConversationId: null. Conversation ids 'c0', 'c1', ... are kept as
\* the numbers 0, 1, ...
NoConversation == -1

\* The value of this.state the constructor sets.
InitialState ==
    [conversations |-> <<>>,
     activeConversationId |-> NoConversation,
     isManualMode |-> FALSE,
     isLoading |-> FALSE,
     searchQuery |-> <<>>,
     selectedFilter |-> "all"]

\* { ...a, ...b }: the keys of both, b's value where b has the key.
Merge(a, b) ==
    [k \in (DOMAIN a) \cup (DOMAIN b) |-> IF k \in DOMAIN b THEN b[k] ELSE a[k]]

\* notify() with no try/catch around the callback: the first throw ends the
\* forEach and leaves notify().
RECURSIVE NotifyFromNoCatch(_, _, _, _)
NotifyFromNoCatch(subs, i, st, thr) ==
    IF i > Len(subs) THEN [calls |-> <<>>, escaped |-> FALSE]
    ELSE LET call == [cb |-> subs[i], seen |-> st, threw |-> (i \in thr)]
         IN  IF i \in thr
             THEN [calls |-> <<call>>, escaped |-> TRUE]
             ELSE LET rest == NotifyFromNoCatch(subs, i + 1, st, thr)
                  IN  [calls |-> <<call>> \o rest.calls, escaped |-> rest.escaped]

NotifyNoCatch(subs, st, thr) == NotifyFromNoCatch(subs, 1, st, thr)

\* The forEach of notify() from index i on: callback(this.state) inside
\* try/catch, so a throwing callback is logged and the loop goes on. thr is the
\* set of positions whose callback throws in this round.
RECURSIVE NotifyFrom(_, _, _, _)
NotifyFrom(subs, i, st, thr) ==
    IF i > Len(subs) THEN [calls |-> <<>>, escaped |-> FALSE]
    ELSE LET call == [cb |-> subs[i], seen |-> st, threw |-> (i \in thr)]
             rest == NotifyFrom(subs, i + 1, st, thr)
         IN  [calls |-> <<call>> \o rest.calls, escaped |-> rest.escaped]

\* notify()
Notify(subs, st, thr) == NotifyFrom(subs, 1, st, thr)

\* setState with the two statements swapped: subscribers are notified with the
\* state as it was, and the update is merged afterwards.
SetStateNotifyFirst(updates, thr) ==
    LET r == Notify(subscribers, state, thr)
    IN  /\ state' = Merge(state, updates)
        /\ notifyLog' = r.calls
        /\ escaped' = r.escaped
        /\ lastOp' = "setState"
        /\ lastUpdate' = updates
        /\ UNCHANGED subscribers

\* setState(updates): this.state = { ...this.state, ...updates }; this.notify()
SetState(updates, thr) ==
    LET merged == Merge(state, updates)
        r == Notify(subscribers, merged, thr)
    IN  /\ state' = merged
        /\ notifyLog' = r.calls
        /\ escaped' = r.escaped
        /\ lastOp' = "setState"
        /\ lastUpdate' = updates
        /\ UNCHANGED subscribers

\* Position of the first occurrence of cb in subs, 0 when absent (indexOf).
IndexOf(subs, cb) ==
    IF \E i \in 1..Len(subs) : subs[i] = cb
    THEN CHOOSE i \in 1..Len(subs) :
            subs[i] = cb /\ \A j \in 1..(i - 1) : subs[j] # cb
    ELSE 0

\* splice(index, 1)
RemoveAt(subs, i) == [j \in 1..(Len(subs) - 1) |-> IF j < i THEN subs[j] ELSE subs[j + 1]]

\* lastUpdate when the latest operation was no setState: the empty update.
NoUpdate == [k \in {} |-> FALSE]

StoreInit ==
    /\ state = InitialState
    /\ subscribers = <<>>
    /\ notifyLog = <<>>
    /\ escaped = FALSE
    /\ lastOp = "new"
    /\ lastUpdate = NoUpdate

\* The partial updates the store's callers pass: those of the convenience
\* setters setManualMode, setLoading and setActiveConversation, and one update
\* of two keys at once.
Updates ==
    {[isManualMode |-> TRUE], [isManualMode |-> FALSE],
     [isLoading |-> TRUE], [isLoading |-> FALSE],
     [activeConversationId |-> 1],
     [isLoading |-> FALSE, selectedFilter |-> "unread"]}

\* subscribe(callback)
Subscribe(cb) ==
    /\ Len(subscribers) < MaxSubscribers
    /\ subscribers' = Append(subscribers, cb)
    /\ lastOp' = "subscribe"
    /\ notifyLog' = <<>>
    /\ escaped' = FALSE
    /\ lastUpdate' = NoUpdate
    /\ UNCHANGED state
    /\ UNCHANGED otherThanStore

\* The function subscribe(callback) returned, called.
Unsubscribe(cb) ==
    /\ LET index == IndexOf(subscribers, cb)
       IN  subscribers' = IF index > 0 THEN RemoveAt(subscribers, index)
                          ELSE subscribers
    /\ lastOp' = "unsubscribe"
    /\ notifyLog' = <<>>
    /\ escaped' = FALSE
    /\ lastUpdate' = NoUpdate
    /\ UNCHANGED state
    /\ UNCHANGED otherThanStore

\* A caller's setState(updates); thr: the subscribers that throw this time.
CallSetState(updates, thr) ==
    /\ SetState(updates, thr)
    /\ UNCHANGED otherThanStore

NextStore ==
    \/ \E cb \in Callbacks : Subscribe(cb)
    \/ \E cb \in Callbacks : Unsubscribe(cb)
    \/ \E u \in Updates, thr \in SUBSET (1..Len(subscribers)) : CallSetState(u, thr)

(***************************************************************************)
(* Strings: a string is the sequence of its characters                     *)
(***************************************************************************)
LowerLetters == <<"a", "b", "c", "d", "e", "f", "g", "h", "i", "j", "k", "l", "m",
                  "n", "o", "p", "q", "r", "s", "t", "u", "v", "w", "x", "y", "z">>
UpperLetters == <<"A", "B", "C", "D", "E", "F", "G", "H", "I", "J", "K", "L", "M",
                  "N", "O", "P", "Q", "R", "S", "T", "U", "V", "W", "X", "Y", "Z">>

\* The value undefined where a string is expected; no string equals it, since
\* the elements of a string are single characters.
Undefined == <<"undefined">>

\* One character of String.prototype.toLowerCase / toUpperCase.
LowerChar(c) ==
    IF \E i \in 1..Len(UpperLetters) : UpperLetters[i] = c
    THEN LowerLetters[CHOOSE i \in 1..Len(UpperLetters) : UpperLetters[i] = c]
    ELSE c
UpperChar(c) ==
    IF \E i \in 1..Len(LowerLetters) : LowerLetters[i] = c
    THEN UpperLetters[CHOOSE i \in 1..Len(LowerLetters) : LowerLetters[i] = c]
    ELSE c

\* s.toLowerCase(), s.toUpperCase()
ToLowerCase(s) == [i \in 1..Len(s) |-> LowerChar(s[i])]
ToUpperCase(s) == [i \in 1..Len(s) |-> UpperChar(s[i])]

\* s.includes(q): q occurs in s as a run of consecutive characters.
Includes(s, q) ==
    \E i \in 0..(Len(s) - Len(q)) : SubSeq(s, i + 1, i + Len(q)) = q

\* s.split(' '): the runs between single spaces, empty runs included; the
\* empty string gives one empty run.
RECURSIVE SplitFrom(_, _, _)
SplitFrom(s, i, run) ==
    IF i > Len(s) THEN <<run>>
    ELSE IF s[i] = " " THEN <<run>> \o SplitFrom(s, i + 1, <<>>)
    ELSE SplitFrom(s, i + 1, Append(run, s[i]))

Split(s) == SplitFrom(s, 1, <<>>)

\* parts.join(''): an undefined part is joined as the empty string.
RECURSIVE Join(_)
Join(parts) ==
    IF parts = <<>> THEN <<>>
    ELSE (IF Head(parts) = Undefined THEN <<>> ELSE Head(parts)) \o Join(Tail(parts))

\* s.slice(0, n)
Slice(s, n) == SubSeq(s, 1, IF Len(s) < n THEN Len(s) ELSE n)

\* CONFIG.DEFAULT_TAGS: ['lead', 'fx']
DefaultTags == <<<<"l", "e", "a", "d">>, <<"f", "x">>>>

\* The display names of the modelled contacts.
AnaRuiz == <<"A", "n", "a", " ", "R", "u", "i", "z">>
LuisPaz == <<"L", "u", "i", "s", " ", "P", "a", "z">>

(***************************************************************************)
(* ApiService                                                              *)
(***************************************************************************)
\* What a try block did: threw an error with a message, or returned a value.
Thrown(msg) == [threw |-> TRUE, msg |-> msg]
Returned(v) == [threw |-> FALSE, value |-> v]

\* What the promise of an async method settles to.
Resolved(v) == [settled |-> "resolved", value |-> v]
Rejected(msg) == [settled |-> "rejected", error |-> msg]

\* Raw history entries {id, typo, message} of the wire format.
RawMsg(id, typo) == [id |-> id, typo |-> typo, isaudio |-> FALSE]

\* Raw list entries {name, number, interview, history}; isObject is FALSE for
\* an entry that is null, on which any property access throws.
RawEntry(name, number, interview, history) ==
    [isObject |-> TRUE, name |-> name, number |-> number,
     interview |-> interview, history |-> history]
NullEntry ==
    [isObject |-> FALSE, name |-> <<>>, number |-> 0,
     interview |-> FALSE, history |-> <<>>]

\* msg.typo of a raw message that carries no code (undefined).
MissingCode == -1

\* A raw message that may be audio-flagged, with its payload.
RawAudio(id, typo, isaudio, message) ==
    [id |-> id, typo |-> typo, isaudio |-> isaudio, message |-> message]

\* The taxonomy lookup with a fallback of the outgoing color.
MessageTypeFallbackOut(typo) ==
    CASE typo = 1 -> [from |-> "bot", label |-> "Bot", color |-> "out"]
      [] typo = 2 -> [from |-> "them", label |-> "Client", color |-> "in"]
      [] typo = 3 -> [from |-> "bot", label |-> "AI", color |-> "out"]
      [] typo = 4 -> [from |-> "admin", label |-> "Admin", color |-> "out"]
      [] OTHER -> [from |-> "unknown", label |-> "Unknown", color |-> "out"]

\* CONFIG.MESSAGE_TYPES[typo] || { from: 'unknown', label: 'Unknown', color: 'in' }
\* (the labels without their pictograms)
MessageType(typo) ==
    CASE typo = 1 -> [from |-> "bot", label |-> "Bot", color |-> "out"]
      [] typo = 2 -> [from |-> "them", label |-> "Client", color |-> "in"]
      [] typo = 3 -> [from |-> "bot", label |-> "AI", color |-> "out"]
      [] typo = 4 -> [from |-> "admin", label |-> "Admin", color |-> "out"]
      [] OTHER -> [from |-> "unknown", label |-> "Unknown", color |-> "in"]

\* A payload that is no string (typeof base64Data !== 'string').
NotAString == <<"object">>

\* The values of audioUrl: null, or the blob URL createObjectURL returned.
Null == "null"
BlobUrl == "blob:"

Base64Chars ==
    {LowerLetters[i] : i \in 1..Len(LowerLetters)}
    \cup {UpperLetters[i] : i \in 1..Len(UpperLetters)}
    \cup {"0", "1", "2", "3", "4", "5", "6", "7", "8", "9", "+", "/"}

\* s.startsWith(p)
StartsWith(s, p) == Len(s) >= Len(p) /\ SubSeq(s, 1, Len(p)) = p

DataScheme == <<"d", "a", "t", "a", ":">>
Base64Marker == <<";", "b", "a", "s", "e", "6", "4", ",">>

\* How many characters /^data:[^;]+;base64,/ matches at the start of s, 0 when
\* it does not match: after 'data:' the first ';' must come after at least one
\* character and open ';base64,'.
MatchDataUri(s) ==
    IF StartsWith(s, DataScheme)
       /\ \E k \in (Len(DataScheme) + 2)..Len(s) : s[k] = ";"
    THEN LET k == CHOOSE k \in (Len(DataScheme) + 1)..Len(s) :
                     s[k] = ";" /\ \A j \in (Len(DataScheme) + 1)..(k - 1) : s[j] # ";"
         IN  IF k > Len(DataScheme) + 1
                /\ StartsWith(SubSeq(s, k, Len(s)), Base64Marker)
             THEN k + Len(Base64Marker) - 1
             ELSE 0
    ELSE 0

\* base64Data.replace(/^data:[^;]+;base64,/, '')
StripDataUri(s) == SubSeq(s, MatchDataUri(s) + 1, Len(s))

\* /^[A-Za-z0-9+/]*={0,2}$/.test(s)
MatchesBase64Format(s) ==
    \E pad \in 0..2 :
        /\ pad <= Len(s)
        /\ \A k \in 1..(Len(s) - pad) : s[k] \in Base64Chars
        /\ \A k \in (Len(s) - pad + 1)..Len(s) : s[k] = "="

\* atob(s) throws InvalidCharacterError: with a length that is a multiple of 4
\* up to two '=' are dropped from the end; what is left must not have a length
\* of 1 modulo 4 nor a character outside the alphabet.
AtobThrows(s) ==
    LET pad == IF Len(s) % 4 # 0 \/ Len(s) = 0 THEN 0
               ELSE IF s[Len(s)] # "=" THEN 0
               ELSE IF s[Len(s) - 1] # "=" THEN 1
               ELSE 2
        body == SubSeq(s, 1, Len(s) - pad)
    IN  \/ Len(body) % 4 = 1
        \/ \E k \in 1..Len(body) : body[k] \notin Base64Chars

\* The try block of convertBase64ToAudioUrl(base64Data). The type the blob
\* is given does not decide whether a URL is returned and is left out.
ConvertBase64ToAudioUrlTry(base64Data) ==
    IF base64Data = <<>> \/ base64Data = NotAString THEN Returned(Null)
    ELSE LET base64Audio == StripDataUri(base64Data)
         IN  IF ~MatchesBase64Format(base64Audio) THEN Returned(Null)
             ELSE IF AtobThrows(base64Audio) THEN Thrown("InvalidCharacterError")
             ELSE Returned(BlobUrl)

\* convertBase64ToAudioUrl with its outer catch missing.
ConvertBase64ToAudioUrlNoCatch(base64Data) ==
    ConvertBase64ToAudioUrlTry(base64Data)

\* convertBase64ToAudioUrl(base64Data): the catch returns null.
ConvertBase64ToAudioUrl(base64Data) ==
    LET t == ConvertBase64ToAudioUrlTry(base64Data)
    IN  IF t.threw THEN Returned(Null) ELSE t

\* msg.isaudio && msg.message
IsAudioWithPayload(msg) == msg.isaudio /\ msg.message # <<>>

\* mapMessageData(msg) lets an exception escape.
MapMessageDataThrows(msg) ==
    IsAudioWithPayload(msg) /\ ConvertBase64ToAudioUrl(msg.message).threw

\* mapMessageData(msg); the text and the timestamp are left out.
MapMessageData(msg) ==
    LET messageType == MessageType(msg.typo)
        mappedMessage ==
           [id |-> msg.id, from |-> messageType.from, type |-> msg.typo,
            label |-> messageType.label, color |-> messageType.color,
            isAudio |-> msg.isaudio]
    IN  IF IsAudioWithPayload(msg)
        THEN mappedMessage @@
             [audioData |-> msg.message,
              audioUrl |-> ConvertBase64ToAudioUrl(msg.message).value]
        ELSE mappedMessage

\* A name in which a tab separates the words.
AnaTabRuiz == <<"A", "n", "a", "\t", "R", "u", "i", "z">>

\* A raw list entry without the history property.
RawEntryNoHistory(name, number, interview) ==
    [isObject |-> TRUE, name |-> name, number |-> number, interview |-> interview]

\* n[0] of a part of the split: undefined for an empty part.
FirstChar(n) == IF n = <<>> THEN Undefined ELSE <<n[1]>>

\* The first two characters of the name, uppercased.
GetInitialsOfFirstWord(name) ==
    IF name = Undefined THEN Undefined ELSE Slice(ToUpperCase(name), 2)

\* getInitials(name):
\* name?.split(' ').map(n => n[0]).join('').toUpperCase().slice(0, 2)
GetInitials(name) ==
    IF name = Undefined THEN Undefined
    ELSE LET parts == Split(name)
         IN  Slice(ToUpperCase(Join([i \in 1..Len(parts) |-> FirstChar(parts[i])])), 2)

\* number.history || []
HistoryOf(number) ==
    IF "history" \in DOMAIN number THEN number.history ELSE <<>>

\* mapConversationData(number, index): id is 'c' + (index + 1), kept as the number.
MapConversationData(number, index) ==
    [id |-> index + 1,
     name |-> number.name,
     initials |-> GetInitials(number.name),
     number |-> number.number,
     src |-> "Whats",
     tags |-> DefaultTags,
     unread |-> 0,
     needsAttention |-> ~number.interview,
     interview |-> number.interview,
     messages |-> [i \in 1..Len(HistoryOf(number)) |-> MapMessageData(HistoryOf(number)[i])]]

\* The try block of fetchConversations().
FetchConversationsTry(resp) ==
    IF resp.net = "fail" THEN Thrown("Failed to fetch")
    ELSE IF resp.body.kind = "notjson" THEN Thrown("Unexpected token")
    ELSE IF resp.body.kind = "null" THEN Thrown("Cannot read properties of null")
    ELSE IF resp.body.status = 200
    THEN IF ~resp.body.hasNumbers
         THEN Thrown("Cannot read properties of undefined")
         ELSE IF \E i \in 1..Len(resp.body.numbers) : ~resp.body.numbers[i].isObject
         THEN Thrown("Cannot read properties of null")
         ELSE Returned([success |-> TRUE,
                        data |-> [i \in 1..Len(resp.body.numbers) |->
                                    MapConversationData(resp.body.numbers[i], i - 1)]])
    ELSE Returned([success |-> FALSE,
                   error |-> IF resp.body.message # "" THEN resp.body.message
                             ELSE "Error loading conversations"])

\* fetchConversations()
FetchConversations(resp) ==
    LET t == FetchConversationsTry(resp)
    IN  IF t.threw THEN Resolved([success |-> FALSE, error |-> t.msg])
        ELSE Resolved(t.value)

\* The try block of fetchConversationInfo(phoneNumber).
FetchConversationInfoTry(resp) ==
    IF resp.net = "fail" THEN Thrown("Failed to fetch")
    ELSE IF resp.body.kind = "notjson" THEN Thrown("Unexpected token")
    ELSE IF resp.body.kind = "null" THEN Thrown("Cannot read properties of null")
    ELSE IF resp.body.status = 200
    THEN Returned([success |-> TRUE, data |-> resp.body])
    ELSE Returned([success |-> FALSE,
                   error |-> IF resp.body.message # "" THEN resp.body.message
                             ELSE "Error loading conversation info"])

\* fetchConversationInfo(phoneNumber)
FetchConversationInfo(resp) ==
    LET t == FetchConversationInfoTry(resp)
    IN  IF t.threw THEN Resolved([success |-> FALSE, error |-> t.msg])
        ELSE Resolved(t.value)

\* The try block of sendIntervention(phoneNumber, message): response.json() is
\* awaited only when response.ok, and it rejects on a body that is not JSON.
SendInterventionTry(resp) ==
    IF resp.net = "fail" THEN Thrown("Failed to fetch")
    ELSE IF resp.ok
    THEN IF resp.body.kind = "notjson" THEN Thrown("Unexpected token")
         ELSE Returned([success |-> TRUE, data |-> resp.body])
    ELSE Returned([success |-> FALSE, error |-> "Failed to send message"])

\* sendIntervention with the catch block missing: what the try block throws
\* rejects the returned promise.
SendInterventionNoCatch(resp) ==
    LET t == SendInterventionTry(resp)
    IN  IF t.threw THEN Rejected(t.msg)
        ELSE Resolved(t.value)

\* sendIntervention(phoneNumber, message)
SendIntervention(resp) ==
    LET t == SendInterventionTry(resp)
    IN  IF t.threw THEN Resolved([success |-> FALSE, error |-> t.msg])
        ELSE Resolved(t.value)

\* The try block of sendVoiceMessage(phoneNumber, base64Audio): response.json()
\* is awaited before response.ok is looked at.
SendVoiceMessageTry(resp) ==
    IF resp.net = "fail" THEN Thrown("Failed to fetch")
    ELSE IF resp.body.kind = "notjson" THEN Thrown("Unexpected token")
    ELSE IF resp.ok THEN Returned([success |-> TRUE, data |-> resp.body])
    ELSE IF resp.body.kind = "null" THEN Thrown("Cannot read properties of null")
    ELSE Returned([success |-> FALSE,
                   error |-> IF resp.body.message # "" THEN resp.body.message
                             ELSE "Failed to send voice message"])

\* sendVoiceMessage(phoneNumber, base64Audio)
SendVoiceMessage(resp) ==
    LET t == SendVoiceMessageTry(resp)
    IN  IF t.threw THEN Resolved([success |-> FALSE, error |-> t.msg])
        ELSE Resolved(t.value)

\* Bodies a backend answer may carry: not JSON at all, the JSON value null, or
\* an object with or without a status, a numbers list and a message.
Body(kind, status, hasNumbers, numbers, message) ==
    [kind |-> kind, status |-> status, hasNumbers |-> hasNumbers,
     numbers |-> numbers, message |-> message]

\* Phone numbers of the contacts the backend knows.
Numbers == 1..NumContacts

\* The numbers lists of the modelled answers: none, one entry per contact in
\* either order (with or without an interview, with a history of HistoryLen
\* messages or none), or a list holding a null entry.
NumbersLists ==
    {<<>>, <<NullEntry>>}
    \cup {<<RawEntry(AnaRuiz, n, iv, h)>> :
             n \in Numbers, iv \in BOOLEAN,
             h \in {<<>>, [i \in 1..HistoryLen |-> RawMsg(i, 2)]}}

ObjectBodies ==
    {Body("object", st, FALSE, <<>>, m) : st \in {0, 200, 500}, m \in {"", "backend says no"}}
    \cup {Body("object", st, TRUE, l, "") : st \in {200, 500}, l \in NumbersLists}

Bodies == {Body("notjson", 0, FALSE, <<>>, ""), Body("null", 0, FALSE, <<>>, "")}
          \cup ObjectBodies

\* Outcomes of one fetch(): the request fails, or an HTTP response arrives whose
\* status is (ok) or is not in the 2xx range.
Responses ==
    {[net |-> "fail", ok |-> FALSE, body |-> Body("notjson", 0, FALSE, <<>>, "")]}
    \cup {[net |-> "ok", ok |-> o, body |-> b] : o \in BOOLEAN, b \in Bodies}

ApiInit ==
    /\ apiCall = [op |-> "none"]
    /\ apiResult = [settled |-> "none"]

CallFetchConversations(resp) ==
    /\ apiCall' = [op |-> "fetchConversations", resp |-> resp]
    /\ apiResult' = FetchConversations(resp)
    /\ UNCHANGED otherThanApi

CallFetchConversationInfo(resp) ==
    /\ apiCall' = [op |-> "fetchConversationInfo", resp |-> resp]
    /\ apiResult' = FetchConversationInfo(resp)
    /\ UNCHANGED otherThanApi

CallSendIntervention(resp) ==
    /\ apiCall' = [op |-> "sendIntervention", resp |-> resp]
    /\ apiResult' = SendIntervention(resp)
    /\ UNCHANGED otherThanApi

CallSendVoiceMessage(resp) ==
    /\ apiCall' = [op |-> "sendVoiceMessage", resp |-> resp]
    /\ apiResult' = SendVoiceMessage(resp)
    /\ UNCHANGED otherThanApi

NextApi ==
    \/ \E resp \in Responses : CallFetchConversations(resp)
    \/ \E resp \in Responses : CallFetchConversationInfo(resp)
    \/ \E resp \in Responses : CallSendIntervention(resp)
    \/ \E resp \in Responses : CallSendVoiceMessage(resp)

(***************************************************************************)
(* UIManager and WhatsAppAdminApp: loading, text sends, voice notes        *)
(***************************************************************************)
\* The callback setupStateSubscriptions subscribes: it re-renders the list,
\* the header and the thread.
RenderCallback == 1

\* Date.now() as the id of a locally created message: a timestamp, above every
\* id a backend history carries.
LocalMessageId == 1000

\* The state after a run of setState calls.
RECURSIVE MergeAll(_, _)
MergeAll(st, us) ==
    IF us = <<>> THEN st ELSE MergeAll(Merge(st, Head(us)), Tail(us))

\* The store calls one handler makes in a row, each ending in setState(update);
\* the render callback does not throw.
StoreCalls(us) ==
    IF us = <<>> THEN UNCHANGED storeVars
    ELSE LET final == MergeAll(state, us)
         IN  /\ state' = final
             /\ notifyLog' = Notify(subscribers, final, {}).calls
             /\ escaped' = FALSE
             /\ lastOp' = "setState"
             /\ lastUpdate' = us[Len(us)]
             /\ UNCHANGED subscribers

\* conversations.findIndex(c => c.id === id), 0 when there is none.
FindConversation(convs, id) ==
    IF \E i \in 1..Len(convs) : convs[i].id = id
    THEN CHOOSE i \in 1..Len(convs) :
            convs[i].id = id /\ \A j \in 1..(i - 1) : convs[j].id # id
    ELSE 0

\* getActiveConversation(): index of the active conversation, 0 for null.
GetActiveConversation == FindConversation(state.conversations, state.activeConversationId)

\* addMessage(conversationId, message): the setState it ends in, if any.
AddMessage(st, conversationId, message) ==
    LET i == FindConversation(st.conversations, conversationId)
    IN  IF i = 0 THEN <<>>
        ELSE <<[conversations |->
                  [st.conversations EXCEPT ![i].messages = Append(@, message)]]>>

\* Sequence s without its i-th element.
Without(s, i) == [j \in 1..(Len(s) - 1) |-> IF j < i THEN s[j] ELSE s[j + 1]]

\* Answers to the list request the panel is run against: a failed request, or
\* a 200 envelope with a numbers list.
LoadResponses ==
    {r \in Responses :
        \/ r.net = "fail"
        \/ r.ok /\ r.body.kind = "object" /\ r.body.status = 200 /\ r.body.hasNumbers
              /\ \A i \in 1..Len(r.body.numbers) :
                    r.body.numbers[i].isObject =>
                       (~r.body.numbers[i].interview /\ r.body.numbers[i].history = <<>>)}

\* Answers to a send request the panel is run against.
SendResponses ==
    {r \in Responses : r.net = "fail" \/ r.body.kind # "object" \/ ~r.body.hasNumbers}

\* The state once the constructor of WhatsAppAdminApp has run init() up to its
\* first await: the render callback is subscribed and loadConversations has
\* called setLoading(true) and issued its request.
PanelInit ==
    /\ loadsInFlight = 0
    /\ textInFlight = <<>>
    /\ isRecording = FALSE
    /\ mediaRecorder = 0
    /\ audioChunks = <<>>
    /\ timerInterval = FALSE
    /\ liveIntervals = 0
    /\ recorders = <<>>
    /\ micPending = 0
    /\ readers = <<>>
    /\ voiceInFlight = <<>>
    /\ streamsHeld = 0

\* No new-message event has arrived yet; the thread view is at its end.
LiveInit ==
    /\ infoInFlight = <<>>
    /\ handled = [outcome |-> "none"]
    /\ atBottom = TRUE
    /\ scrollPending = FALSE
    /\ indicator = FALSE

\* The audio elements of a rendered thread: paused, at position 0, no click yet.
AudioInit ==
    /\ audioPaused = [a \in 1..NumAudio |-> TRUE]
    /\ audioTime = [a \in 1..NumAudio |-> 0]
    /\ audioLast = [audio |-> 0, playing |-> {}]

\* No list request is counted yet and no send has got its answer.
RefreshInit ==
    /\ loadReqs = <<>>
    /\ loadSeq = 0
    /\ landed = [req |-> 0, data |-> <<>>, others |-> <<>>]
    /\ lastSend = [number |-> 0, success |-> FALSE]
    /\ liveBlobs = 0

\* The thread area as the page is served: no message container.
DomInit ==
    /\ threadDom = [container |-> FALSE, elements |-> <<>>]
    /\ delivered = FALSE

\* No operation has been called on its own yet.
CallsInit ==
    /\ upsert = [op |-> "none"]
    /\ fnCall = [op |-> "none"]
    /\ fnResult = Returned("none")

PanelStarted ==
    /\ SocketInit
    /\ ApiInit
    /\ LiveInit
    /\ CallsInit
    /\ AudioInit
    /\ RefreshInit
    /\ DomInit
    /\ subscribers = <<RenderCallback>>
    /\ state = Merge(InitialState, [isLoading |-> TRUE])
    /\ notifyLog = Notify(subscribers, state, {}).calls
    /\ escaped = FALSE
    /\ lastOp = "setState"
    /\ lastUpdate = [isLoading |-> TRUE]
    /\ loadsInFlight = 1
    /\ textInFlight = <<>>
    /\ isRecording = FALSE
    /\ mediaRecorder = 0
    /\ audioChunks = <<>>
    /\ timerInterval = FALSE
    /\ liveIntervals = 0
    /\ recorders = <<>>
    /\ micPending = 0
    /\ readers = <<>>
    /\ voiceInFlight = <<>>
    /\ streamsHeld = 0

\* loadConversations() up to its await: setLoading(true), request issued. Run
\* by the 'refresh' event and by the conversation_updated socket event.
LoadConversationsStart ==
    /\ loadsInFlight < MaxLoadsInFlight
    /\ loadsInFlight' = loadsInFlight + 1
    /\ StoreCalls(<<[isLoading |-> TRUE]>>)
    /\ UNCHANGED <<textInFlight, voiceVars>>
    /\ UNCHANGED otherThanPanel

\* loadConversations() from the answer on with no setConversations once the
\* store holds conversations.
LoadConversationsAnsweredKeepsList(resp) ==
    LET result == FetchConversations(resp).value
    IN  IF result.success /\ state.conversations = <<>>
        THEN <<[conversations |-> result.data]>>
             \o (IF Len(result.data) > 0 /\ state.activeConversationId = NoConversation
                 THEN <<[activeConversationId |-> result.data[1].id]>>
                 ELSE <<>>)
             \o <<[isLoading |-> FALSE]>>
        ELSE <<[isLoading |-> FALSE]>>

\* The store calls of loadConversations() from the answer on: setConversations,
\* the first conversation made active when none is, and setLoading(false) in
\* the finally.
LoadConversationsAnswered(resp) ==
    LET result == FetchConversations(resp).value
    IN  IF result.success
        THEN <<[conversations |-> result.data]>>
             \o (IF Len(result.data) > 0 /\ state.activeConversationId = NoConversation
                 THEN <<[activeConversationId |-> result.data[1].id]>>
                 ELSE <<>>)
             \o <<[isLoading |-> FALSE]>>
        ELSE <<[isLoading |-> FALSE]>>

\* loadConversations() from the answer on.
LoadConversationsDone(resp) ==
    /\ loadsInFlight > 0
    /\ loadsInFlight' = loadsInFlight - 1
    /\ StoreCalls(LoadConversationsAnswered(resp))
    /\ UNCHANGED <<textInFlight, voiceVars>>
    /\ UNCHANGED otherThanPanel

\* 'toggleManualMode' listener: setManualMode(!currentMode)
ToggleManualMode ==
    /\ StoreCalls(<<[isManualMode |-> ~state.isManualMode]>>)
    /\ UNCHANGED panelVars
    /\ UNCHANGED otherThanPanel

\* sendMessage(message) up to its await: the request for the active
\* conversation's number is issued, if there is an active conversation.
SendMessageStart ==
    LET i == GetActiveConversation
    IN  IF i = 0 THEN UNCHANGED textInFlight
        ELSE textInFlight' = Append(textInFlight,
                    [id |-> state.conversations[i].id,
                     number |-> state.conversations[i].number,
                     manual |-> state.isManualMode])

\* handleSendMessage(): nothing for an empty input; a toast and no send while
\* isManualMode is false; else the 'sendMessage' event, whose listener runs
\* sendMessage(message) at once.
HandleSendMessage(empty) ==
    /\ Len(textInFlight) < MaxTextInFlight
    /\ \A i \in 1..Len(state.conversations) :
          Len(state.conversations[i].messages) < MaxMessages
    /\ IF empty \/ ~state.isManualMode
       THEN UNCHANGED textInFlight
       ELSE SendMessageStart
    /\ UNCHANGED <<loadsInFlight, voiceVars, storeVars>>
    /\ UNCHANGED otherThanPanel

\* sendMessage(message) from the answer on: on success the mapped message
\* (typo 4) is added to the conversation captured before the await.
SendMessageDone(k, resp) ==
    /\ k \in 1..Len(textInFlight)
    /\ textInFlight' = Without(textInFlight, k)
    /\ LET result == SendIntervention(resp).value
       IN  IF result.success
           THEN StoreCalls(AddMessage(state, textInFlight[k].id,
                    MapMessageData([id |-> LocalMessageId, typo |-> 4, isaudio |-> FALSE])))
           ELSE UNCHANGED storeVars
    /\ UNCHANGED <<loadsInFlight, voiceVars>>
    /\ UNCHANGED otherThanPanel

\* resetRecordingUI(): isRecording = false; the interval whose handle is held
\* in timerInterval is cleared.
ResetRecordingUI ==
    /\ isRecording' = FALSE
    /\ timerInterval' = FALSE
    /\ liveIntervals' = IF timerInterval THEN liveIntervals - 1 ELSE liveIntervals

\* mediaRecorder.stop() on the recorder voiceRecording holds: the recorder
\* queues its dataavailable event, then its stop event.
MediaRecorderStop(cancel) ==
    recorders' = [recorders EXCEPT ![mediaRecorder] =
                     [status |-> IF @.status = "recording" THEN "stopped" ELSE @.status,
                      cancelled |-> @.cancelled \/ cancel]]

\* stopVoiceRecording(): returns at once when nothing is being recorded.
StopVoiceRecording ==
    IF ~isRecording
    THEN UNCHANGED <<isRecording, timerInterval, liveIntervals, recorders>>
    ELSE /\ MediaRecorderStop(FALSE)
         /\ ResetRecordingUI

\* toggleVoiceRecording(): a toast while isManualMode is false; a running
\* recording is stopped; else startVoiceRecording() asks for the microphone.
ToggleVoiceRecordingWithin(maxPending) ==
    /\ IF ~state.isManualMode
       THEN UNCHANGED <<isRecording, timerInterval, liveIntervals, recorders, micPending>>
       ELSE IF isRecording
       THEN StopVoiceRecording /\ UNCHANGED micPending
       ELSE /\ micPending < maxPending
            /\ micPending' = micPending + 1
            /\ UNCHANGED <<isRecording, timerInterval, liveIntervals, recorders>>
    /\ UNCHANGED <<mediaRecorder, audioChunks, readers, voiceInFlight, streamsHeld>>
    /\ UNCHANGED <<loadsInFlight, textInFlight, storeVars>>
    /\ UNCHANGED otherThanPanel

ToggleVoiceRecording == ToggleVoiceRecordingWithin(MaxMicPending)

\* startVoiceRecording() after getUserMedia resolved: a new MediaRecorder is
\* stored and started, audioChunks emptied, isRecording set, the timer started
\* (startRecordingTimer overwrites timerInterval with the new handle).
MicrophoneGrantedWithin(maxRecorders) ==
    /\ micPending > 0
    /\ Len(recorders) < maxRecorders
    /\ streamsHeld < MaxStreams
    /\ micPending' = micPending - 1
    /\ recorders' = Append(recorders, [status |-> "recording", cancelled |-> FALSE])
    /\ mediaRecorder' = Len(recorders) + 1
    /\ audioChunks' = <<>>
    /\ isRecording' = TRUE
    /\ timerInterval' = TRUE
    /\ liveIntervals' = liveIntervals + 1
    /\ streamsHeld' = streamsHeld + 1
    /\ UNCHANGED <<readers, voiceInFlight>>
    /\ UNCHANGED <<loadsInFlight, textInFlight, storeVars>>
    /\ UNCHANGED otherThanPanel

MicrophoneGranted == MicrophoneGrantedWithin(MaxRecorders)

\* startVoiceRecording() after getUserMedia resolved, in a browser that does
\* not record 'audio/webm;codecs=opus': new MediaRecorder(stream, ...) throws
\* NotSupportedError and the catch shows a toast; the stream stays as it is.
RecorderNotSupported ==
    /\ micPending > 0
    /\ streamsHeld < MaxStreams
    /\ micPending' = micPending - 1
    /\ streamsHeld' = streamsHeld + 1
    /\ UNCHANGED <<isRecording, mediaRecorder, audioChunks, timerInterval, liveIntervals,
                   recorders, readers, voiceInFlight>>
    /\ UNCHANGED <<loadsInFlight, textInFlight, storeVars>>
    /\ UNCHANGED otherThanPanel

\* startVoiceRecording() after getUserMedia rejected: the catch shows a toast.
MicrophoneDenied ==
    /\ micPending > 0
    /\ micPending' = micPending - 1
    /\ UNCHANGED <<isRecording, mediaRecorder, audioChunks, timerInterval, liveIntervals,
                   recorders, readers, voiceInFlight, streamsHeld>>
    /\ UNCHANGED <<loadsInFlight, textInFlight, storeVars>>
    /\ UNCHANGED otherThanPanel

\* Click on the overlay's stop button: stopVoiceRecording().
StopRecordingButton ==
    /\ StopVoiceRecording
    /\ UNCHANGED <<mediaRecorder, audioChunks, micPending, readers, voiceInFlight,
                   streamsHeld>>
    /\ UNCHANGED <<loadsInFlight, textInFlight, storeVars>>
    /\ UNCHANGED otherThanPanel

\* The interval callback of startRecordingTimer once 300 s have elapsed:
\* stopVoiceRecording() and a toast.
RecordingLimitReached ==
    /\ liveIntervals > 0
    /\ StopVoiceRecording
    /\ UNCHANGED <<mediaRecorder, audioChunks, micPending, readers, voiceInFlight,
                   streamsHeld>>
    /\ UNCHANGED <<loadsInFlight, textInFlight, storeVars>>
    /\ UNCHANGED otherThanPanel

\* cancelVoiceRecording() (cancel button, or Escape while recording):
\* mediaRecorder.stop(), audioChunks = [], resetRecordingUI().
CancelVoiceRecording ==
    /\ IF ~isRecording
       THEN UNCHANGED <<isRecording, timerInterval, liveIntervals, recorders, audioChunks>>
       ELSE /\ MediaRecorderStop(TRUE)
            /\ audioChunks' = <<>>
            /\ ResetRecordingUI
    /\ UNCHANGED <<mediaRecorder, micPending, readers, voiceInFlight, streamsHeld>>
    /\ UNCHANGED <<loadsInFlight, textInFlight, storeVars>>
    /\ UNCHANGED otherThanPanel

\* ondataavailable of recorder r, fired by the recorder after stop() with what
\* it captured: the chunk is pushed when event.data.size > 0.
OnDataAvailable(r, hasData) ==
    /\ r \in 1..Len(recorders)
    /\ recorders[r].status = "stopped"
    /\ recorders' = [recorders EXCEPT ![r].status = "flushed"]
    /\ audioChunks' = IF hasData THEN Append(audioChunks, r) ELSE audioChunks
    /\ UNCHANGED <<isRecording, mediaRecorder, timerInterval, liveIntervals, micPending,
                   readers, voiceInFlight, streamsHeld>>
    /\ UNCHANGED <<loadsInFlight, textInFlight, storeVars>>
    /\ UNCHANGED otherThanPanel

\* processRecordedAudio(): nothing when audioChunks is empty; else a Blob of
\* the chunks is handed to a FileReader.
ProcessRecordedAudio ==
    readers' = IF audioChunks = <<>> THEN readers ELSE Append(readers, audioChunks)

\* onstop of recorder r, fired after its dataavailable event:
\* processRecordedAudio(), then the stream's tracks are stopped.
OnStop(r) ==
    /\ r \in 1..Len(recorders)
    /\ recorders[r].status = "flushed"
    /\ recorders' = [recorders EXCEPT ![r].status = "inactive"]
    /\ ProcessRecordedAudio
    /\ streamsHeld' = streamsHeld - 1
    /\ UNCHANGED <<isRecording, mediaRecorder, audioChunks, timerInterval, liveIntervals,
                   micPending, voiceInFlight>>
    /\ UNCHANGED <<loadsInFlight, textInFlight, storeVars>>
    /\ UNCHANGED otherThanPanel

\* UIManager.sendVoiceMessage(base64Audio) up to its await: a toast when no
\* conversation is active, else the request is issued.
SendVoiceMessageStart(blob) ==
    LET i == GetActiveConversation
    IN  IF i = 0 THEN UNCHANGED voiceInFlight
        ELSE voiceInFlight' = Append(voiceInFlight,
                    [id |-> state.conversations[i].id,
                     number |-> state.conversations[i].number,
                     audio |-> blob,
                     manual |-> state.isManualMode])

\* reader.onloadend of the k-th FileReader: sendVoiceMessage(base64Audio).
OnLoadEnd(k) ==
    /\ k \in 1..Len(readers)
    /\ readers' = Without(readers, k)
    /\ SendVoiceMessageStart(readers[k])
    /\ UNCHANGED <<isRecording, mediaRecorder, audioChunks, timerInterval, liveIntervals,
                   recorders, micPending, streamsHeld>>
    /\ UNCHANGED <<loadsInFlight, textInFlight, storeVars>>
    /\ UNCHANGED otherThanPanel

\* The message UIManager.sendVoiceMessage adds on success.
VoiceMessage(blob) ==
    [id |-> LocalMessageId, from |-> "admin", type |-> 4, label |-> "Admin Voice",
     color |-> "out", isAudio |-> TRUE, audioData |-> blob]

\* UIManager.sendVoiceMessage from the answer on: on success the voice message
\* is added to the conversation captured before the await.
SendVoiceMessageDone(k, resp) ==
    /\ k \in 1..Len(voiceInFlight)
    /\ voiceInFlight' = Without(voiceInFlight, k)
    /\ LET result == SendVoiceMessage(resp).value
       IN  IF result.success
           THEN StoreCalls(AddMessage(state, voiceInFlight[k].id,
                                      VoiceMessage(voiceInFlight[k].audio)))
           ELSE UNCHANGED storeVars
    /\ UNCHANGED <<isRecording, mediaRecorder, audioChunks, timerInterval, liveIntervals,
                   recorders, micPending, readers, streamsHeld>>
    /\ UNCHANGED <<loadsInFlight, textInFlight>>
    /\ UNCHANGED otherThanPanel

\* reset(): the state is replaced by the initial one, then notify().
Reset ==
    /\ state' = InitialState
    /\ notifyLog' = Notify(subscribers, InitialState, {}).calls
    /\ escaped' = FALSE
    /\ lastOp' = "reset"
    /\ lastUpdate' = NoUpdate
    /\ UNCHANGED subscribers

\* WhatsAppAdminApp.destroy(): socketService.disconnect(), stateManager.reset().
\* Listeners, requests in flight and the voice recording are left as they are.
Destroy ==
    /\ socket = "connected" => DisconnectInBounds
    /\ Disconnect
    /\ Reset
    /\ UNCHANGED <<panelVars, apiVars, liveVars, callVars, audioVars, refreshVars,
                   domVars>>

NextPanel ==
    \/ LoadConversationsStart
    \/ \E resp \in LoadResponses : LoadConversationsDone(resp)
    \/ ToggleManualMode
    \/ \E empty \in BOOLEAN : HandleSendMessage(empty)
    \/ \E k \in 1..MaxTextInFlight, resp \in SendResponses : SendMessageDone(k, resp)
    \/ ToggleVoiceRecording
    \/ MicrophoneGranted
    \/ RecorderNotSupported
    \/ MicrophoneDenied
    \/ StopRecordingButton
    \/ RecordingLimitReached
    \/ CancelVoiceRecording
    \/ \E r \in 1..MaxRecorders, hasData \in BOOLEAN : OnDataAvailable(r, hasData)
    \/ \E r \in 1..MaxRecorders : OnStop(r)
    \/ \E k \in 1..MaxRecorders : OnLoadEnd(k)
    \/ \E k \in 1..MaxRecorders, resp \in SendResponses : SendVoiceMessageDone(k, resp)
    \/ Destroy

(***************************************************************************)
(* WhatsAppAdminApp.handleNewMessage and the thread view                   *)
(***************************************************************************)
\* Phone numbers of the contacts that write to the panel.
LiveNumbers == 1..NumLiveContacts

\* The display name the backend holds for a contact.
ContactName(n) == IF n = 1 THEN AnaRuiz ELSE LuisPaz

\* updateConversation without its lookup by id: the conversation is pushed
\* whether or not the store holds one with that id.
UpdateConversationAlwaysPush(st, conversation) ==
    [conversations |-> Append(st.conversations, conversation)]

\* updateConversation(conversation): the update its setState is passed.
UpdateConversation(st, conversation) ==
    LET index == FindConversation(st.conversations, conversation.id)
    IN  [conversations |->
            IF index > 0
            THEN [st.conversations EXCEPT ![index] = Merge(@, conversation)]
            ELSE Append(st.conversations, conversation)]

\* mapConversationData2(number, index): the entry is read from number.number
\* and the id is 'c' + index.
MapConversationData2(data, index) ==
    [MapConversationData(data.number, index) EXCEPT !.id = index]

\* findConversationByNumber(phoneNumber): its index, 0 for null.
FindConversationByNumber(convs, phoneNumber) ==
    IF \E i \in 1..Len(convs) : convs[i].number = phoneNumber
    THEN CHOOSE i \in 1..Len(convs) :
            convs[i].number = phoneNumber /\ \A j \in 1..(i - 1) : convs[j].number # phoneNumber
    ELSE 0

\* Bodies of the answers to GET conversation info: an envelope with a status,
\* with or without the contact under its number key.
InfoBody(status, hasNumber, number, message) ==
    [kind |-> "object", status |-> status, hasNumber |-> hasNumber,
     number |-> number, message |-> message]

\* Answers to fetchConversationInfo(n): the request fails, the backend reports
\* an error, the envelope lacks the contact, or it holds the contact n with a
\* history of HistoryLen messages or none.
InfoResponses(n) ==
    {[net |-> "fail", ok |-> FALSE, body |-> InfoBody(0, FALSE, NullEntry, "")],
     [net |-> "ok", ok |-> FALSE, body |-> InfoBody(500, FALSE, NullEntry, "")],
     [net |-> "ok", ok |-> TRUE, body |-> InfoBody(200, FALSE, NullEntry, "")]}
    \cup {[net |-> "ok", ok |-> TRUE,
           body |-> InfoBody(200, TRUE, RawEntry(ContactName(n), n, FALSE, h), "")] :
             h \in {<<>>, [i \in 1..HistoryLen |-> RawMsg(i, 2)]}}

\* The lists a finished loadConversations may have stored: each contact at
\* most once, in any order.
LoadedLists ==
    {<<>>}
    \cup {<<RawEntry(ContactName(n), n, FALSE, <<>>)>> : n \in LiveNumbers}
    \cup {l \in {<<RawEntry(ContactName(n), n, FALSE, <<>>),
                    RawEntry(ContactName(m), m, FALSE, <<>>)>> :
                     n \in LiveNumbers, m \in LiveNumbers} :
             l[1].number # l[2].number}

\* renderConversationThread() draws a thread when there is an active
\* conversation, and then always schedules scrollToBottom().
ThreadShown(st) == FindConversation(st.conversations, st.activeConversationId) # 0

\* The state once init() has finished: loadConversations stored the list the
\* backend answered with and made its first conversation active; the scrolls
\* its renders scheduled have run.
LiveStarted ==
    /\ SocketInit
    /\ ApiInit
    /\ PanelInit
    /\ LiveInit
    /\ CallsInit
    /\ AudioInit
    /\ RefreshInit
    /\ DomInit
    /\ subscribers = <<RenderCallback>>
    /\ \E l \in LoadedLists :
          LET data == [i \in 1..Len(l) |-> MapConversationData(l[i], i - 1)]
          IN  state = MergeAll(InitialState,
                        <<[conversations |-> data]>>
                        \o (IF Len(data) > 0
                            THEN <<[activeConversationId |-> data[1].id]>>
                            ELSE <<>>)
                        \o <<[isLoading |-> FALSE]>>)
    /\ notifyLog = Notify(subscribers, state, {}).calls
    /\ escaped = FALSE
    /\ lastOp = "setState"
    /\ lastUpdate = [isLoading |-> FALSE]

\* onNewMessage / onAIMessage: handleNewMessage(data) up to its await. The
\* lookup by number is commented out, so the contact is always fetched.
OnNewMessage(number, typo) ==
    /\ Len(infoInFlight) < MaxInfoInFlight
    /\ Len(state.conversations) < MaxLiveConversations
    /\ infoInFlight' = Append(infoInFlight, [number |-> number, typo |-> typo])
    /\ UNCHANGED <<handled, viewVars, storeVars>>
    /\ UNCHANGED otherThanLive

\* handleNewMessage(data) from the answer on: a toast on failure; else the
\* contact mapped with id 'c' + conversations.length goes through
\* updateConversation, the message through addMessage, and when that id is the
\* active one addMessageWithAnimation schedules a scroll, as each render does.
HandleNewMessageDone(k, resp) ==
    /\ k \in 1..Len(infoInFlight)
    /\ resp \in InfoResponses(infoInFlight[k].number)
    /\ infoInFlight' = Without(infoInFlight, k)
    /\ LET data == infoInFlight[k]
           result == FetchConversationInfo(resp).value
       IN  IF ~result.success
           THEN /\ handled' = [outcome |-> "failed", number |-> data.number]
                /\ UNCHANGED <<storeVars, viewVars>>
           ELSE IF ~result.data.hasNumber
           THEN /\ handled' = [outcome |-> "threw", number |-> data.number]
                /\ UNCHANGED <<storeVars, viewVars>>
           ELSE LET conversationData ==
                       MapConversationData2(result.data, Len(state.conversations))
                    messageData ==
                       MapMessageData([id |-> LocalMessageId, typo |-> data.typo,
                                       isaudio |-> FALSE])
                    updated == Merge(state, UpdateConversation(state, conversationData))
                    calls == <<UpdateConversation(state, conversationData)>>
                             \o AddMessage(updated, conversationData.id, messageData)
                IN  /\ StoreCalls(calls)
                    /\ handled' = [outcome |-> "added", number |-> data.number,
                                   id |-> conversationData.id]
                    /\ scrollPending' =
                          (\/ scrollPending
                           \/ ThreadShown(MergeAll(state, calls))
                           \/ conversationData.id = state.activeConversationId)
                    /\ UNCHANGED <<atBottom, indicator>>
    /\ UNCHANGED otherThanLive

\* 'selectConversation' listener: setActiveConversation(id); the render draws
\* the thread and schedules a scroll.
SelectConversation(i) ==
    /\ i \in 1..Len(state.conversations)
    /\ StoreCalls(<<[activeConversationId |-> state.conversations[i].id]>>)
    /\ scrollPending' = TRUE
    /\ UNCHANGED <<infoInFlight, handled, atBottom, indicator>>
    /\ UNCHANGED otherThanLive

\* The operator scrolls the thread up, away from its end.
ScrollAway ==
    /\ ThreadShown(state)
    /\ atBottom
    /\ atBottom' = FALSE
    /\ UNCHANGED <<infoInFlight, handled, scrollPending, indicator, storeVars>>
    /\ UNCHANGED otherThanLive

\* The operator scrolls back to the end: handleScroll removes the indicator.
ScrollBack ==
    /\ ~atBottom
    /\ atBottom' = TRUE
    /\ indicator' = FALSE
    /\ UNCHANGED <<infoInFlight, handled, scrollPending, storeVars>>
    /\ UNCHANGED otherThanLive

\* A scheduled scrollToBottom() runs.
ScrollToBottom ==
    /\ scrollPending
    /\ scrollPending' = FALSE
    /\ atBottom' = TRUE
    /\ UNCHANGED <<infoInFlight, handled, indicator, storeVars>>
    /\ UNCHANGED otherThanLive

NextLive ==
    \/ \E number \in LiveNumbers, typo \in {2, 3} : OnNewMessage(number, typo)
    \/ \E k \in 1..MaxInfoInFlight, n \in LiveNumbers :
          \E resp \in InfoResponses(n) : HandleNewMessageDone(k, resp)
    \/ \E i \in 1..MaxLiveConversations : SelectConversation(i)
    \/ ScrollAway
    \/ ScrollBack
    \/ ScrollToBottom

(***************************************************************************)
(* StateManager.updateConversation, called on its own                      *)
(***************************************************************************)
\* Ids of the conversations passed to updateConversation.
UpsertIds == 1..MaxUpsertIds

\* The arguments passed to updateConversation: a mapped contact (with or
\* without a history), or a change of one field of the conversation of an id.
UpsertPayloads ==
    {MapConversationData(RawEntry(AnaRuiz, n, FALSE, h), id - 1) :
        n \in Numbers, id \in UpsertIds,
        h \in {<<>>, [i \in 1..HistoryLen |-> RawMsg(i, 2)]}}
    \cup {[id |-> id, unread |-> 3] : id \in UpsertIds}

\* A caller's updateConversation(conversation).
CallUpdateConversation(conversation) ==
    /\ SetState(UpdateConversation(state, conversation), {})
    /\ upsert' = [op |-> "updateConversation",
                  conversation |-> conversation,
                  nth |-> IF upsert.op = "updateConversation"
                             /\ upsert.conversation = conversation
                          THEN 2 ELSE 1]
    /\ UNCHANGED <<fnCall, fnResult>>
    /\ UNCHANGED otherThanCalls

NextUpsert ==
    \E conversation \in UpsertPayloads : CallUpdateConversation(conversation)

(***************************************************************************)
(* StateManager.getFilteredConversations, called on its own                *)
(***************************************************************************)
Digits == <<"0", "1", "2", "3", "4", "5", "6", "7", "8", "9">>

\* The string a contact's phone number is: the contact n has the number 52n.
PhoneText(n) == <<"5", "2", Digits[(n % 10) + 1]>>


\* The elements of s at the positions in keep, in the order of s (what
\* Array.prototype.filter returns for a callback true at those positions).
RECURSIVE FilterFrom(_, _, _)
FilterFrom(s, i, keep) ==
    IF i > Len(s) THEN <<>>
    ELSE (IF i \in keep THEN <<s[i]>> ELSE <<>>) \o FilterFrom(s, i + 1, keep)

Filter(s, keep) == FilterFrom(s, 1, keep)

\* The callback of the search filter, for the lower-cased query: the name, a
\* tag or the number includes it.
MatchesSearch(conversation, query) ==
    \/ Includes(ToLowerCase(conversation.name), query)
    \/ \E k \in 1..Len(conversation.tags) :
          Includes(ToLowerCase(conversation.tags[k]), query)
    \/ Includes(PhoneText(conversation.number), query)

\* getFilteredConversations with the unread test off by one (>= 0 for > 0).
GetFilteredConversationsUnreadFromZero(st) ==
    LET searched ==
           IF st.searchQuery # <<>>
           THEN Filter(st.conversations,
                       {i \in 1..Len(st.conversations) :
                           MatchesSearch(st.conversations[i], ToLowerCase(st.searchQuery))})
           ELSE st.conversations
    IN  IF st.searchQuery # <<>>
           /\ \E i \in 1..Len(st.conversations) : st.conversations[i].name = Undefined
        THEN Thrown("Cannot read properties of undefined")
        ELSE Returned(
               CASE st.selectedFilter = "unread" ->
                      Filter(searched, {i \in 1..Len(searched) : searched[i].unread >= 0})
                 [] st.selectedFilter = "attention" ->
                      Filter(searched, {i \in 1..Len(searched) : searched[i].needsAttention})
                 [] OTHER -> searched)

\* getFilteredConversations(): the search filter runs when searchQuery is not
\* empty, and its callback throws on a conversation whose name is undefined
\* (name.toLowerCase()); then the filter of the selected type runs.
GetFilteredConversations(st) ==
    LET searched ==
           IF st.searchQuery # <<>>
           THEN Filter(st.conversations,
                       {i \in 1..Len(st.conversations) :
                           MatchesSearch(st.conversations[i], ToLowerCase(st.searchQuery))})
           ELSE st.conversations
    IN  IF st.searchQuery # <<>>
           /\ \E i \in 1..Len(st.conversations) : st.conversations[i].name = Undefined
        THEN Thrown("Cannot read properties of undefined")
        ELSE Returned(
               CASE st.selectedFilter = "unread" ->
                      Filter(searched, {i \in 1..Len(searched) : searched[i].unread > 0})
                 [] st.selectedFilter = "attention" ->
                      Filter(searched, {i \in 1..Len(searched) : searched[i].needsAttention})
                 [] OTHER -> searched)

\* The conversations the store is filled with: the i-th has the id 'c' + i and
\* the number of contact i, a name or none, and any unread count and flag.
FilterConversation(i, name, unread, needsAttention) ==
    [id |-> i, name |-> name, number |-> i, tags |-> DefaultTags,
     unread |-> unread, needsAttention |-> needsAttention, messages |-> <<>>]

FilterLists ==
    UNION {[1..n -> {AnaRuiz, LuisPaz, Undefined} \X {0, 2} \X BOOLEAN] :
              n \in 0..MaxFilterConversations}

\* What the operator types into the search box: a part of a name in either
\* case, a tag, a part of a number, or something nothing matches.
Queries == {<<>>, <<"a", "n">>, <<"R", "U">>, <<"f", "x">>, <<"2", "1">>, <<"q">>}

\* The values passed to setFilter: the three filters, and a value that is none.
Filters == {"all", "unread", "attention", "starred"}

\* The store after setConversations(conversations) with one of the lists.
FilterStarted ==
    /\ SocketInit
    /\ ApiInit
    /\ PanelInit
    /\ LiveInit
    /\ CallsInit
    /\ AudioInit
    /\ RefreshInit
    /\ DomInit
    /\ subscribers = <<>>
    /\ \E l \in FilterLists :
          state = Merge(InitialState,
                    [conversations |->
                        [i \in 1..Len(l) |->
                            FilterConversation(i, l[i][1], l[i][2], l[i][3])]])
    /\ notifyLog = <<>>
    /\ escaped = FALSE
    /\ lastOp = "setState"
    /\ lastUpdate = [conversations |-> state.conversations]

\* A caller's setSearchQuery(query).
CallSetSearchQuery(query) ==
    /\ SetState([searchQuery |-> query], {})
    /\ fnCall' = [op |-> "none"]
    /\ fnResult' = Returned("none")
    /\ UNCHANGED upsert
    /\ UNCHANGED otherThanCalls

\* A caller's setFilter(filter).
CallSetFilter(filter) ==
    /\ SetState([selectedFilter |-> filter], {})
    /\ fnCall' = [op |-> "none"]
    /\ fnResult' = Returned("none")
    /\ UNCHANGED upsert
    /\ UNCHANGED otherThanCalls

\* A caller's getFilteredConversations().
CallGetFilteredConversations ==
    /\ fnCall' = [op |-> "getFilteredConversations"]
    /\ fnResult' = GetFilteredConversations(state)
    /\ UNCHANGED <<upsert, storeVars>>
    /\ UNCHANGED otherThanCalls

NextFilter ==
    \/ \E query \in Queries : CallSetSearchQuery(query)
    \/ \E filter \in Filters : CallSetFilter(filter)
    \/ CallGetFilteredConversations

(***************************************************************************)
(* UIManager.renderConversationThread, called on its own                   *)
(***************************************************************************)
\* Array.prototype.sort((a, b) => a.id - b.id) as an insertion sort: m goes
\* behind the elements it does not compare below (the sort is stable).
RECURSIVE InsertById(_, _)
InsertById(sorted, m) ==
    IF sorted = <<>> THEN <<m>>
    ELSE IF m.id - Head(sorted).id < 0 THEN <<m>> \o sorted
    ELSE <<Head(sorted)>> \o InsertById(Tail(sorted), m)

RECURSIVE SortByIdFrom(_, _, _)
SortByIdFrom(s, i, sorted) ==
    IF i > Len(s) THEN sorted
    ELSE SortByIdFrom(s, i + 1, InsertById(sorted, s[i]))

SortById(s) == SortByIdFrom(s, 1, <<>>)

\* renderConversationThread with the sort left out: the messages are drawn in
\* the order of the array.
RenderConversationThreadUnsorted(st) ==
    LET i == FindConversation(st.conversations, st.activeConversationId)
    IN  IF i = 0 THEN [drawn |-> FALSE, shown |-> <<>>, stored |-> st.conversations]
        ELSE [drawn |-> TRUE,
              shown |-> st.conversations[i].messages,
              stored |-> st.conversations]

\* renderConversationThread(): nothing without an active conversation; else
\* the thread shows a sorted copy of its messages (all of them up to 100
\* messages), and the conversation's own array is left as it is.
RenderConversationThread(st) ==
    LET i == FindConversation(st.conversations, st.activeConversationId)
    IN  IF i = 0 THEN [drawn |-> FALSE, shown |-> <<>>, stored |-> st.conversations]
        ELSE [drawn |-> TRUE,
              shown |-> SortById(st.conversations[i].messages),
              stored |-> st.conversations]

\* Ids of the messages of the rendered thread.
ThreadIds == {1, 2, 3, 5}

\* The message arrays of the rendered conversation: any ids in any order.
ThreadLists == UNION {[1..n -> ThreadIds] : n \in 0..MaxThreadMessages}

\* The store holds one conversation, with one of the message arrays; it is
\* the active one or none is.
ThreadStarted ==
    /\ SocketInit
    /\ ApiInit
    /\ PanelInit
    /\ LiveInit
    /\ CallsInit
    /\ AudioInit
    /\ RefreshInit
    /\ DomInit
    /\ subscribers = <<>>
    /\ \E l \in ThreadLists, active \in {1, NoConversation} :
          state = Merge(InitialState,
                    [conversations |->
                        <<[MapConversationData(RawEntry(AnaRuiz, 1, FALSE, <<>>), 0)
                             EXCEPT !.messages =
                                [k \in 1..Len(l) |-> MapMessageData(RawMsg(l[k], 2))]]>>,
                     activeConversationId |-> active])
    /\ notifyLog = <<>>
    /\ escaped = FALSE
    /\ lastOp = "setState"
    /\ lastUpdate = [activeConversationId |-> state.activeConversationId]

\* A call of renderConversationThread().
CallRenderConversationThread ==
    LET r == RenderConversationThread(state)
    IN  /\ fnCall' = [op |-> "renderConversationThread"]
        /\ fnResult' = Returned([drawn |-> r.drawn, shown |-> r.shown])
        /\ state' = [state EXCEPT !.conversations = r.stored]
        /\ UNCHANGED <<subscribers, notifyLog, escaped, lastOp, lastUpdate, upsert>>
        /\ UNCHANGED otherThanCalls

\* 'selectConversation' listener on the rendered store.
CallSetActiveConversation(id) ==
    /\ SetState([activeConversationId |-> id], {})
    /\ fnCall' = [op |-> "none"]
    /\ fnResult' = Returned("none")
    /\ UNCHANGED upsert
    /\ UNCHANGED otherThanCalls

NextThread ==
    \/ CallRenderConversationThread
    \/ \E id \in {1} : CallSetActiveConversation(id)

(***************************************************************************)
(* ApiService.mapMessageData, called on its own                            *)
(***************************************************************************)
\* The data-URI prefix 'data:a/o;base64,'.
DataUriPrefix == DataScheme \o <<"a", "/", "o">> \o Base64Marker

\* Payloads of audio-flagged messages: none; base64 with and without padding;
\* a length atob rejects; misplaced padding; a character outside the alphabet;
\* a value that is no string; and base64, good and bad, behind a data-URI
\* prefix or behind 'data:' alone.
AudioPayloads ==
    {<<>>,
     <<"A", "b", "0", "/">>,
     <<"A", "b", "=", "=">>,
     <<"A", "b", "+">>,
     <<"A">>,
     <<"A", "b", "=">>,
     <<"A", "*", "b", "c">>,
     NotAString,
     DataUriPrefix \o <<"A", "b", "0", "/">>,
     DataUriPrefix \o <<"A">>,
     DataUriPrefix \o <<"A", " ", "b", "c">>,
     DataScheme \o <<"A", "b", "0", "/">>}

\* Wire codes of the raw messages: 0..MaxTypo, and none.
Typos == (0..MaxTypo) \cup {MissingCode}

RawMessages ==
    {RawAudio(1, typo, isaudio, message) :
        typo \in Typos, isaudio \in BOOLEAN, message \in AudioPayloads}

\* A call of mapMessageData(msg).
CallMapMessageData(msg) ==
    /\ fnCall' = [op |-> "mapMessageData", msg |-> msg]
    /\ fnResult' = IF MapMessageDataThrows(msg) THEN Thrown("InvalidCharacterError")
                   ELSE Returned(MapMessageData(msg))
    /\ UNCHANGED <<upsert, storeVars>>
    /\ UNCHANGED otherThanCalls

NextMapper ==
    \E msg \in RawMessages : CallMapMessageData(msg)

(***************************************************************************)
(* Calls of mapConversationData                                            *)
(***************************************************************************)
MaxEntryIndex == 1
MaxEntryHistory == 2

\* The names of raw entries: two words, absent, empty, one word, lowercase
\* words, doubled, leading and trailing spaces, three words, a tab between
\* the words.
EntryNames ==
    {AnaRuiz, LuisPaz, Undefined, <<>>, <<"a", "n", "a">>,
     <<"a", "n", "a", " ", " ", "r", "u", "i", "z">>,
     <<" ", "a", "n", "a">>, <<"a", "n", "a", " ">>,
     <<"a", " ", "b", " ", "c">>, <<" ">>, AnaTabRuiz}

\* The histories of raw entries: messages with ascending ids and any codes.
EntryHistories ==
    UNION {[1..n -> {RawMsg(0, typo) : typo \in 1..2}] : n \in 0..MaxEntryHistory}

WithIds(h) == [i \in 1..Len(h) |-> [h[i] EXCEPT !.id = i]]

RawEntries ==
    {RawEntry(name, 1, interview, WithIds(h)) :
        name \in EntryNames, interview \in BOOLEAN, h \in EntryHistories}
    \cup {RawEntryNoHistory(name, 1, interview) :
        name \in EntryNames, interview \in BOOLEAN}

\* A call of mapConversationData(number, index).
CallMapConversationData(number, index) ==
    /\ fnCall' = [op |-> "mapConversationData", number |-> number, index |-> index]
    /\ fnResult' = Returned(MapConversationData(number, index))
    /\ UNCHANGED <<upsert, storeVars>>
    /\ UNCHANGED otherThanCalls

NextEntry ==
    \E number \in RawEntries, index \in 0..MaxEntryIndex :
        CallMapConversationData(number, index)

(***************************************************************************)
(* UIManager: audio playback                                               *)
(***************************************************************************)
AudioIds == 1..NumAudio

\* stopAllAudio() that pauses the elements and leaves their positions.
StopAllAudioNoRewind ==
    [paused |-> [a \in AudioIds |-> TRUE], time |-> audioTime]

\* stopAllAudio(): every audio element of the document is paused and set to
\* currentTime 0.
StopAllAudio ==
    [paused |-> [a \in AudioIds |-> TRUE], time |-> [a \in AudioIds |-> 0]]

\* toggleAudioPlayback(audioId, button): a click on the play button of element
\* a. For a paused element stopAllAudio(), then play(), which clears the
\* paused attribute unless the source is refused at once (supported FALSE:
\* play() returns a rejected promise and the element stays paused); for an
\* element that is not paused, pause().
ToggleAudioPlayback(a, supported) ==
    /\ audioLast' = [audio |-> a, playing |-> {b \in AudioIds : ~audioPaused[b]}]
    /\ IF audioPaused[a]
       THEN /\ audioPaused' = [StopAllAudio.paused EXCEPT ![a] = ~supported]
            /\ audioTime' = StopAllAudio.time
       ELSE /\ audioPaused' = [audioPaused EXCEPT ![a] = TRUE]
            /\ audioTime' = audioTime
    /\ UNCHANGED otherThanAudio

\* Playback of an element that is not paused advances.
AudioAdvances(a) ==
    /\ ~audioPaused[a]
    /\ audioTime[a] < MaxAudioTime
    /\ audioTime' = [audioTime EXCEPT ![a] = @ + 1]
    /\ UNCHANGED <<audioPaused, audioLast>>
    /\ UNCHANGED otherThanAudio

\* seekAudio(e, progressBar, audioElement): a click on the progress bar of
\* element a sets its currentTime to the clicked share of its duration.
SeekAudio(a, t) ==
    /\ audioTime' = [audioTime EXCEPT ![a] = t]
    /\ UNCHANGED <<audioPaused, audioLast>>
    /\ UNCHANGED otherThanAudio

\* Playback reaches the end of the media: the element is paused by the browser
\* at its end position and 'ended' is fired (the listener changes icons only).
AudioEnded(a) ==
    /\ ~audioPaused[a]
    /\ audioTime[a] = MaxAudioTime
    /\ audioPaused' = [audioPaused EXCEPT ![a] = TRUE]
    /\ UNCHANGED <<audioTime, audioLast>>
    /\ UNCHANGED otherThanAudio

\* The thread is rendered again (innerHTML): the audio elements are replaced
\* by new ones, paused at 0; an element taken out of the document is paused.
AudioRerendered ==
    /\ audioPaused' = [a \in AudioIds |-> TRUE]
    /\ audioTime' = [a \in AudioIds |-> 0]
    /\ UNCHANGED audioLast
    /\ UNCHANGED otherThanAudio

NextAudio ==
    \/ \E a \in AudioIds, supported \in BOOLEAN : ToggleAudioPlayback(a, supported)
    \/ \E a \in AudioIds : AudioAdvances(a)
    \/ \E a \in AudioIds : AudioEnded(a)
    \/ \E a \in AudioIds, t \in 0..MaxAudioTime : SeekAudio(a, t)
    \/ AudioRerendered

(***************************************************************************)
(* WhatsAppAdminApp: overlapping refreshes and sends                       *)
(***************************************************************************)
\* A contact whose history is one voice note of the client, valid base64.
AnaWithVoiceNote ==
    RawEntry(AnaRuiz, 1, FALSE, <<RawAudio(1, 2, TRUE, <<"A", "b", "0", "/">>)>>)

\* The blob URLs the mapping of a list created: one for each audio message
\* whose payload convertBase64ToAudioUrl accepted.
BlobsCreated(data) ==
    LET RECURSIVE Sum(_)
        Sum(i) == IF i = 0 THEN 0
                  ELSE Sum(i - 1)
                       + Cardinality({j \in 1..Len(data[i].messages) :
                            /\ "audioUrl" \in DOMAIN data[i].messages[j]
                            /\ data[i].messages[j].audioUrl = BlobUrl})
    IN  Sum(Len(data))

\* Answers to a list request: the request fails, or a 200 envelope with the
\* contacts in some order, or with a contact that has a voice note.
RefreshResponses ==
    {[net |-> "fail", ok |-> FALSE, body |-> Body("notjson", 0, FALSE, <<>>, "")]}
    \cup {[net |-> "ok", ok |-> TRUE, body |-> Body("object", 200, TRUE, l, "")] :
             l \in LoadedLists \cup {<<AnaWithVoiceNote>>}}

\* The state once init() has run up to the first await of loadConversations:
\* the render callback is subscribed, loading is set and request 1 is issued.
RefreshStarted ==
    /\ SocketInit
    /\ ApiInit
    /\ PanelInit
    /\ LiveInit
    /\ CallsInit
    /\ AudioInit
    /\ subscribers = <<RenderCallback>>
    /\ state = Merge(InitialState, [isLoading |-> TRUE])
    /\ notifyLog = Notify(subscribers, state, {}).calls
    /\ escaped = FALSE
    /\ lastOp = "setState"
    /\ lastUpdate = [isLoading |-> TRUE]
    /\ loadReqs = <<1>>
    /\ loadSeq = 1
    /\ landed = [req |-> 0, data |-> <<>>, others |-> <<>>]
    /\ lastSend = [number |-> 0, success |-> FALSE]
    /\ liveBlobs = 0
    /\ DomInit

\* loadConversations() up to its await, run by a 'refresh' event or a
\* conversation_updated event while earlier calls may still await their answer.
RefreshStart ==
    /\ loadSeq < MaxRefreshes
    /\ loadSeq' = loadSeq + 1
    /\ loadReqs' = Append(loadReqs, loadSeq + 1)
    /\ StoreCalls(<<[isLoading |-> TRUE]>>)
    /\ UNCHANGED <<landed, lastSend, liveBlobs, textInFlight>>
    /\ UNCHANGED otherThanRefresh

\* The answer to the k-th awaiting list request arrives, in any order of the
\* requests: loadConversations() from the await on.
RefreshDone(k, resp) ==
    /\ k \in 1..Len(loadReqs)
    /\ loadReqs' = Without(loadReqs, k)
    /\ StoreCalls(LoadConversationsAnswered(resp))
    /\ landed' = LET result == FetchConversations(resp).value
                 IN  IF result.success
                     THEN [req |-> loadReqs[k], data |-> result.data,
                           others |-> Without(loadReqs, k)]
                     ELSE landed
    /\ liveBlobs' = LET result == FetchConversations(resp).value
                    IN  IF result.success THEN liveBlobs + BlobsCreated(result.data)
                        ELSE liveBlobs
    /\ UNCHANGED <<loadSeq, lastSend, textInFlight>>
    /\ UNCHANGED otherThanRefresh

\* sendMessage(message) up to its await, for the active conversation.
RefreshSendStart ==
    /\ Len(textInFlight) < MaxTextInFlight
    /\ \A i \in 1..Len(state.conversations) :
          Len(state.conversations[i].messages) < MaxMessages
    /\ GetActiveConversation # 0
    /\ SendMessageStart
    /\ UNCHANGED <<loadReqs, loadSeq, landed, lastSend, liveBlobs, storeVars>>
    /\ UNCHANGED otherThanRefresh

\* sendMessage(message) from the answer on: on success the mapped message is
\* added under the id of the conversation captured before the await.
RefreshSendDone(k, resp) ==
    /\ k \in 1..Len(textInFlight)
    /\ textInFlight' = Without(textInFlight, k)
    /\ LET result == SendIntervention(resp).value
       IN  /\ lastSend' = [number |-> textInFlight[k].number, success |-> result.success]
           /\ IF result.success
              THEN StoreCalls(AddMessage(state, textInFlight[k].id,
                       MapMessageData([id |-> LocalMessageId, typo |-> 4, isaudio |-> FALSE])))
              ELSE UNCHANGED storeVars
    /\ UNCHANGED <<loadReqs, loadSeq, landed, liveBlobs>>
    /\ UNCHANGED otherThanRefresh

NextRefresh ==
    \/ RefreshStart
    \/ \E k \in 1..Len(loadReqs), resp \in RefreshResponses : RefreshDone(k, resp)

NextSendRefresh ==
    \/ RefreshStart
    \/ \E k \in 1..Len(loadReqs), resp \in RefreshResponses : RefreshDone(k, resp)
    \/ RefreshSendStart
    \/ \E k \in 1..Len(textInFlight), resp \in SendResponses : RefreshSendDone(k, resp)

(***************************************************************************)
(* UIManager: the voice recording on its own, in a browser that records    *)
(* 'audio/webm;codecs=opus'; the recorded blob is followed up to the       *)
(* FileReader                                                              *)
(***************************************************************************)
VoiceToggle == ToggleVoiceRecordingWithin(MaxVoicePending)

VoiceGranted == MicrophoneGrantedWithin(MaxVoiceRecorders)

NextVoice ==
    \/ ToggleManualMode
    \/ VoiceToggle
    \/ VoiceGranted
    \/ MicrophoneDenied
    \/ StopRecordingButton
    \/ RecordingLimitReached
    \/ CancelVoiceRecording
    \/ \E r \in 1..MaxVoiceRecorders, hasData \in BOOLEAN : OnDataAvailable(r, hasData)
    \/ \E r \in 1..MaxVoiceRecorders : OnStop(r)

(***************************************************************************)
(* WhatsAppAdminApp and UIManager: messages handled, followed up to the    *)
(* elements of the rendered thread                                         *)
(***************************************************************************)
\* The subscriber of setupStateSubscriptions after one setState: its
\* renderConversationThread() leaves the thread area as it is without an
\* active conversation, and else replaces its content: no container for an
\* empty conversation, a container with one element per message otherwise.
RenderThread(dom, st) ==
    LET r == RenderConversationThread(st)
    IN  IF ~r.drawn THEN dom
        ELSE [container |-> r.shown # <<>>, elements |-> r.shown]

\* The thread area after the setState calls of one handler, each notifying
\* the subscriber at once.
RECURSIVE RenderAll(_, _, _)
RenderAll(dom, st, us) ==
    IF us = <<>> THEN dom
    ELSE RenderAll(RenderThread(dom, Merge(st, Head(us))), Merge(st, Head(us)), Tail(us))

\* addMessageWithAnimation(message): a full render when the thread area has
\* no container, else one more element appended to the container.
AddMessageWithAnimation(dom, st, message) ==
    IF ~dom.container THEN RenderThread(dom, st)
    ELSE [dom EXCEPT !.elements = Append(@, message)]

\* The state once init() has finished, as LiveStarted, with the thread area
\* as the renders of loadConversations left it.
RenderedStarted ==
    /\ SocketInit
    /\ ApiInit
    /\ PanelInit
    /\ LiveInit
    /\ CallsInit
    /\ AudioInit
    /\ RefreshInit
    /\ subscribers = <<RenderCallback>>
    /\ \E l \in LoadedLists :
          LET data == [i \in 1..Len(l) |-> MapConversationData(l[i], i - 1)]
          IN  state = MergeAll(InitialState,
                        <<[conversations |-> data]>>
                        \o (IF Len(data) > 0
                            THEN <<[activeConversationId |-> data[1].id]>>
                            ELSE <<>>)
                        \o <<[isLoading |-> FALSE]>>)
    /\ notifyLog = Notify(subscribers, state, {}).calls
    /\ escaped = FALSE
    /\ lastOp = "setState"
    /\ lastUpdate = [isLoading |-> FALSE]
    /\ threadDom = RenderThread([container |-> FALSE, elements |-> <<>>], state)
    /\ delivered = FALSE

\* 'selectConversation' listener: setActiveConversation(id), rendered by the
\* subscriber.
RenderedSelect(i) ==
    /\ i \in 1..Len(state.conversations)
    /\ LET calls == <<[activeConversationId |-> state.conversations[i].id]>>
       IN  /\ StoreCalls(calls)
           /\ threadDom' = RenderAll(threadDom, state, calls)
    /\ delivered' = FALSE
    /\ UNCHANGED <<textInFlight, infoInFlight, handled>>
    /\ UNCHANGED otherThanDom

\* sendMessage(message) up to its await, for the active conversation.
RenderedSendStart ==
    /\ Len(textInFlight) < MaxTextInFlight
    /\ \A i \in 1..Len(state.conversations) :
          Len(state.conversations[i].messages) < MaxMessages
    /\ GetActiveConversation # 0
    /\ SendMessageStart
    /\ delivered' = FALSE
    /\ UNCHANGED <<threadDom, infoInFlight, handled, storeVars>>
    /\ UNCHANGED otherThanDom

\* sendMessage(message) from the answer on: on success addMessage, whose
\* setState runs the subscriber's render, and then, when the captured id is
\* the active one, addMessageWithAnimation with the same message.
RenderedSendDone(k, resp) ==
    /\ k \in 1..Len(textInFlight)
    /\ textInFlight' = Without(textInFlight, k)
    /\ LET result == SendIntervention(resp).value
           messageData == MapMessageData([id |-> LocalMessageId, typo |-> 4,
                                          isaudio |-> FALSE])
           calls == AddMessage(state, textInFlight[k].id, messageData)
           final == MergeAll(state, calls)
           rendered == RenderAll(threadDom, state, calls)
           isActive == textInFlight[k].id = final.activeConversationId
       IN  IF result.success
           THEN /\ StoreCalls(calls)
                /\ threadDom' = IF isActive
                                THEN AddMessageWithAnimation(rendered, final, messageData)
                                ELSE rendered
                /\ delivered' = isActive
           ELSE /\ delivered' = FALSE
                /\ UNCHANGED <<storeVars, threadDom>>
    /\ UNCHANGED <<infoInFlight, handled>>
    /\ UNCHANGED otherThanDom

\* onNewMessage / onAIMessage: handleNewMessage(data) up to its await.
RenderedNewMessage(number, typo) ==
    /\ Len(infoInFlight) < MaxInfoInFlight
    /\ Len(state.conversations) < MaxLiveConversations
    /\ infoInFlight' = Append(infoInFlight, [number |-> number, typo |-> typo])
    /\ delivered' = FALSE
    /\ UNCHANGED <<threadDom, textInFlight, handled, storeVars>>
    /\ UNCHANGED otherThanDom

\* handleNewMessage(data) from the answer on: updateConversation and
\* addMessage, each rendered by the subscriber, and then, when the mapped id
\* is the active one, addMessageWithAnimation with the same message.
RenderedNewMessageDone(k, resp) ==
    /\ k \in 1..Len(infoInFlight)
    /\ resp \in InfoResponses(infoInFlight[k].number)
    /\ infoInFlight' = Without(infoInFlight, k)
    /\ LET data == infoInFlight[k]
           result == FetchConversationInfo(resp).value
       IN  IF ~result.success
           THEN /\ handled' = [outcome |-> "failed", number |-> data.number]
                /\ delivered' = FALSE
                /\ UNCHANGED <<storeVars, threadDom>>
           ELSE IF ~result.data.hasNumber
           THEN /\ handled' = [outcome |-> "threw", number |-> data.number]
                /\ delivered' = FALSE
                /\ UNCHANGED <<storeVars, threadDom>>
           ELSE LET conversationData ==
                       MapConversationData2(result.data, Len(state.conversations))
                    messageData ==
                       MapMessageData([id |-> LocalMessageId, typo |-> data.typo,
                                       isaudio |-> FALSE])
                    updated == Merge(state, UpdateConversation(state, conversationData))
                    calls == <<UpdateConversation(state, conversationData)>>
                             \o AddMessage(updated, conversationData.id, messageData)
                    final == MergeAll(state, calls)
                    rendered == RenderAll(threadDom, state, calls)
                    isActive == conversationData.id = final.activeConversationId
                IN  /\ StoreCalls(calls)
                    /\ handled' = [outcome |-> "added", number |-> data.number,
                                   id |-> conversationData.id]
                    /\ threadDom' = IF isActive
                                    THEN AddMessageWithAnimation(rendered, final, messageData)
                                    ELSE rendered
                    /\ delivered' = isActive
    /\ UNCHANGED textInFlight
    /\ UNCHANGED otherThanDom

NextRendered ==
    \/ \E i \in 1..MaxLiveConversations : RenderedSelect(i)
    \/ RenderedSendStart
    \/ \E k \in 1..Len(textInFlight), resp \in SendResponses : RenderedSendDone(k, resp)
    \/ \E number \in LiveNumbers, typo \in {2, 3} : RenderedNewMessage(number, typo)
    \/ \E k \in 1..MaxInfoInFlight, n \in LiveNumbers :
          \E resp \in InfoResponses(n) : RenderedNewMessageDone(k, resp)

NextSocket ==
    \/ ConnectCurrent
    \/ \E st \in SockStatus : ConnectOrphan(st)
    \/ DisconnectCurrent
    \/ DisconnectOrphan
    \/ ReconnectTimerFires
    \/ \E event \in Events : Emit(event)
    \/ CallDisconnect

Init == SocketInit /\ StoreInit /\ ApiInit /\ PanelInit /\ LiveInit /\ CallsInit
        /\ AudioInit /\ RefreshInit /\ DomInit

SpecSocket == Init /\ [][NextSocket]_vars

SpecStore == Init /\ [][NextStore]_vars

SpecApi == Init /\ [][NextApi]_vars

SpecPanel == PanelStarted /\ [][NextPanel]_vars

SpecLive == LiveStarted /\ [][NextLive]_vars

SpecUpsert == Init /\ [][NextUpsert]_vars

SpecFilter == FilterStarted /\ [][NextFilter]_vars

SpecThread == ThreadStarted /\ [][NextThread]_vars

SpecMapper == Init /\ [][NextMapper]_vars

SpecEntry == Init /\ [][NextEntry]_vars

SpecAudio == Init /\ [][NextAudio]_vars

SpecVoice == PanelStarted /\ [][NextVoice]_vars

SpecRendered == RenderedStarted /\ [][NextRendered]_vars

SpecRefresh == RefreshStarted /\ [][NextRefresh]_vars

SpecSendRefresh == RefreshStarted /\ [][NextSendRefresh]_vars

(***************************************************************************)
(* Claims about SocketService (checked under SpecSocket)                   *)
(***************************************************************************)
\* C3: every disconnect event handled while retryCount < 5 adds one to
\* retryCount and schedules exactly one init() (one more pending timer) without
\* surfacing the terminal error; a disconnect handled when retryCount is already
\* 5 surfaces the terminal error once and schedules nothing.
C3_DisconnectRetryBudget ==
    [][lastEvt' = "disconnect" =>
         IF retryCount < 5
         THEN /\ retryCount' = retryCount + 1
              /\ reconnTimers' = reconnTimers + 1
              /\ termErrors' = termErrors
         ELSE /\ retryCount' = retryCount
              /\ reconnTimers' = reconnTimers
              /\ termErrors' = termErrors + 1]_vars

\* The 6th disconnect in a row has just been handled: terminal error surfaced.
C3_Witness ==
    /\ lastEvt = "disconnect"
    /\ prevRetry = 5
    /\ retryCount = 5
    /\ termErrors = 1

\* C4 (as claimed): once the terminal error has been surfaced, no reconnection
\* is scheduled, no init() runs and the terminal error is not surfaced again.
C4_ExhaustionIsTerminal ==
    [][termErrors > 0 =>
         /\ reconnTimers' = reconnTimers
         /\ NumSockets' = NumSockets
         /\ termErrors' = termErrors]_vars

\* C5 (as claimed): at most one socket created by init() has this service's
\* listeners registered and can connect or deliver events.
C5_OneLiveSocket == NumConnected <= 1

\* C6: right after a connect event is handled retryCount is 0, whatever it was.
C6_ConnectResetsRetryCount == lastEvt = "connect" => retryCount = 0

\* A connect event was handled after the retry budget had been used up, and a
\* disconnect can be retried again.
C6_Witness ==
    /\ lastEvt = "connect"
    /\ prevRetry = 5
    /\ retryCount = 0

(***************************************************************************)
(* Claims about StateManager (checked under SpecStore)                     *)
(***************************************************************************)
\* C7: every setState call invokes each subscribed callback exactly once, in
\* subscription order, after the shallow merge: each callback is passed the
\* state that holds the update's values for the update's keys and the previous
\* values for all other keys.
C7_SetStateNotifiesMerged ==
    [][lastOp' = "setState" =>
         /\ DOMAIN state' = DOMAIN state
         /\ \A k \in DOMAIN lastUpdate' : state'[k] = lastUpdate'[k]
         /\ \A k \in (DOMAIN state) \ (DOMAIN lastUpdate') : state'[k] = state[k]
         /\ Len(notifyLog') = Len(subscribers)
         /\ \A i \in 1..Len(subscribers) :
               /\ notifyLog'[i].cb = subscribers[i]
               /\ notifyLog'[i].seen = state']_vars

\* A setState of isLoading alone notified two different subscribers, in order,
\* with a state that kept the earlier isManualMode = TRUE and active id.
C7_Witness ==
    /\ lastOp = "setState"
    /\ lastUpdate = [isLoading |-> TRUE]
    /\ state.isManualMode /\ state.isLoading /\ state.activeConversationId = 1
    /\ subscribers = <<2, 1>>
    /\ Len(notifyLog) = 2
    /\ notifyLog[1].cb = 2 /\ notifyLog[2].cb = 1

\* C8: when a subscriber throws during a notification, every other subscriber
\* is still invoked for that state change, the update is kept and nothing is
\* thrown to the caller of setState.
C8_ThrowingSubscriberIsolated ==
    [][(lastOp' = "setState" /\ \E i \in 1..Len(notifyLog') : notifyLog'[i].threw) =>
         /\ Len(notifyLog') = Len(subscribers)
         /\ \A i \in 1..Len(subscribers) : notifyLog'[i].cb = subscribers[i]
         /\ \A k \in DOMAIN lastUpdate' : state'[k] = lastUpdate'[k]
         /\ ~escaped']_vars

\* The first of two subscribers threw, the second was still invoked, and the
\* update is in the state.
C8_Witness ==
    /\ lastOp = "setState"
    /\ Len(subscribers) = 2
    /\ Len(notifyLog) = 2
    /\ notifyLog[1].threw /\ ~notifyLog[2].threw
    /\ lastUpdate = [isManualMode |-> TRUE]
    /\ state.isManualMode
    /\ ~escaped

(***************************************************************************)
(* Claims about ApiService (checked under SpecApi)                         *)
(***************************************************************************)
\* C9: whatever the backend answers (request failure, body that is not JSON,
\* null body, missing fields, non-200 envelope, non-2xx status), each of the
\* four operations resolves, never rejects, to {success: true, data} or to
\* {success: false, error}.
C9_UniformResult ==
    apiCall.op # "none" =>
        /\ apiResult.settled = "resolved"
        /\ \/ /\ DOMAIN apiResult.value = {"success", "data"}
              /\ apiResult.value.success
           \/ /\ DOMAIN apiResult.value = {"success", "error"}
              /\ ~apiResult.value.success
              /\ apiResult.value.error # ""

\* sendIntervention got a 2xx response whose body is not JSON: the rejection of
\* response.json() was turned into a failure result.
C9_Witness ==
    /\ apiCall.op = "sendIntervention"
    /\ apiCall.resp.net = "ok" /\ apiCall.resp.ok
    /\ apiCall.resp.body.kind = "notjson"
    /\ apiResult.settled = "resolved"
    /\ ~apiResult.value.success

\* C10 (as claimed): sendIntervention reports success exactly when the HTTP
\* status is in the 2xx range, whatever the response body holds.
C10_SuccessIffStatus2xx ==
    apiCall.op = "sendIntervention" =>
        /\ apiResult.settled = "resolved"
        /\ apiResult.value.success <=> (apiCall.resp.net = "ok" /\ apiCall.resp.ok)

(***************************************************************************)
(* Claims about sends and voice notes (checked under SpecPanel)            *)
(***************************************************************************)
\* A send request (text intervention or voice note) is issued in this step.
SendIssued ==
    \/ Len(textInFlight') > Len(textInFlight)
    \/ Len(voiceInFlight') > Len(voiceInFlight)

\* The recorders whose recording was cancelled.
CancelledRecorders == {r \in 1..Len(recorders) : recorders[r].cancelled}

\* The recorders whose audio is in a blob.
RecordersOf(blob) == {blob[j] : j \in 1..Len(blob)}

\* C1 (as claimed): no send request, text or voice, is issued to the backend
\* while isManualMode is false, in any interleaving of toggleManualMode, text
\* sends, start/stop/auto-stop of a recording and the end of audio processing.
C1_NoSendWithoutControl ==
    [][SendIssued => state.isManualMode]_vars

\* C2 (as claimed): the audio of a cancelled recording is never sent to the
\* backend and never added to a conversation as a voice message.
C2_CancelDiscardsAudio ==
    [][/\ Len(voiceInFlight') > Len(voiceInFlight) =>
             RecordersOf(voiceInFlight'[Len(voiceInFlight')].audio)
                 \cap CancelledRecorders' = {}
       /\ \A i \in 1..Len(state'.conversations) :
             \A j \in 1..Len(state'.conversations[i].messages) :
                LET m == state'.conversations[i].messages[j]
                IN  m.isAudio => RecordersOf(m.audioData) \cap CancelledRecorders' = {}]_vars

(***************************************************************************)
(* Claims about live messages and the thread view (checked under SpecLive) *)
(***************************************************************************)
\* handleNewMessage has finished in this step and stored the event's message.
MessageStored ==
    /\ Len(infoInFlight') < Len(infoInFlight)
    /\ handled'.outcome = "added"

\* C11 (as claimed): a live new-message event for a phone number not present
\* in the store creates one new conversation for that number, and every
\* conversation already in the store keeps its id, name, number and messages.
C11_NewConversationFrame ==
    [][(MessageStored
        /\ FindConversationByNumber(state.conversations, handled'.number) = 0) =>
         /\ Len(state'.conversations) = Len(state.conversations) + 1
         /\ Cardinality({i \in 1..Len(state'.conversations) :
                            state'.conversations[i].number = handled'.number}) = 1
         /\ \A i \in 1..Len(state.conversations) :
               /\ state'.conversations[i].id = state.conversations[i].id
               /\ state'.conversations[i].name = state.conversations[i].name
               /\ state'.conversations[i].number = state.conversations[i].number
               /\ state'.conversations[i].messages = state.conversations[i].messages]_vars

\* C14 (as claimed): when a message arrives for the active conversation while
\* the operator has scrolled away from the end of the thread, no scroll to the
\* end is scheduled and the new-message indicator is shown; a scroll is
\* scheduled only when the thread was at its end.
C14_NoForcedScroll ==
    [][(MessageStored /\ handled'.id = state.activeConversationId /\ ~scrollPending) =>
         IF atBottom THEN scrollPending'
         ELSE ~scrollPending' /\ indicator']_vars

(***************************************************************************)
(* Claims about updateConversation (checked under SpecUpsert)              *)
(***************************************************************************)
\* The entries of the store with the id of the conversation upserted last.
UpsertedEntries ==
    {i \in 1..Len(state.conversations) :
        state.conversations[i].id = upsert.conversation.id}

\* C12: calling updateConversation a second time with the same conversation id
\* and payload leaves the state as the first call left it, with exactly one
\* entry of that id in state.conversations.
C12_UpsertIdempotent ==
    [][(upsert'.op = "updateConversation" /\ upsert'.nth = 2) =>
         /\ state' = state
         /\ Cardinality(UpsertedEntries') = 1]_vars

\* The same mapped contact was upserted twice in a row into a store that also
\* holds another conversation: one entry has its id, and it holds the payload.
C12_Witness ==
    /\ upsert.op = "updateConversation"
    /\ upsert.nth = 2
    /\ Len(state.conversations) = 2
    /\ upsert.conversation \in {state.conversations[i] : i \in 1..2}
    /\ Cardinality(UpsertedEntries) = 1

(***************************************************************************)
(* Claims about getFilteredConversations (checked under SpecFilter)        *)
(***************************************************************************)
\* The positions of the conversations of st that match its search query: all
\* of them when the query is empty.
Matching(st) ==
    {i \in 1..Len(st.conversations) :
        \/ st.searchQuery = <<>>
        \/ MatchesSearch(st.conversations[i], ToLowerCase(st.searchQuery))}

\* The conversations of st at the positions in keep, in store order.
InStoreOrder(st, keep) ==
    [k \in 1..Cardinality(keep) |->
        st.conversations[CHOOSE i \in keep : Cardinality({j \in keep : j < i}) = k - 1]]

NotRecording ==
    /\ ~isRecording
    /\ \A r \in 1..Len(recorders) : recorders[r].status = "inactive"

\* C15 (as claimed): whenever no recording is in progress, no microphone stream
\* obtained by startVoiceRecording still has live tracks, also when setting up
\* the recorder failed after access was granted; and after destroy() no stream
\* is held.
C15_MicrophoneReleased ==
    [][/\ NotRecording' => streamsHeld' = 0
       /\ lastOp' = "reset" => streamsHeld' = 0]_vars

(***************************************************************************)
(* Claims about the rendered thread (checked under SpecThread)             *)
(***************************************************************************)
\* How many elements of s have the id.
CountId(s, id) == Cardinality({k \in 1..Len(s) : s[k].id = id})

\* C16: the rendered thread of the active conversation lists the messages of
\* the conversation (each as often as the array holds it) in ascending id
\* order, whatever their order in the array, and rendering leaves the stored
\* array in its order.
C16_ThreadSortedById ==
    [][fnCall'.op = "renderConversationThread" =>
         /\ state' = state
         /\ fnResult'.value.drawn =>
               LET shown == fnResult'.value.shown
                   messages == state.conversations[GetActiveConversation].messages
               IN  /\ \A k \in 1..(Len(shown) - 1) : shown[k].id <= shown[k + 1].id
                   /\ Len(shown) = Len(messages)
                   /\ \A id \in ThreadIds : CountId(shown, id) = CountId(messages, id)]_vars

\* The array holds the ids 5, 1, 3 in this order and the thread shows 1, 3, 5.
C16_Witness ==
    /\ fnCall.op = "renderConversationThread"
    /\ fnResult.value.drawn
    /\ Len(state.conversations[1].messages) = 3
    /\ [k \in 1..3 |-> state.conversations[1].messages[k].id] = <<5, 1, 3>>
    /\ [k \in 1..3 |-> fnResult.value.shown[k].id] = <<1, 3, 5>>

(***************************************************************************)
(* Claims about mapMessageData (checked under SpecMapper)                  *)
(***************************************************************************)
\* C17: mapMessageData maps the wire codes 1 to 4 to the origin, label and
\* color of the MESSAGE_TYPES taxonomy (1 bot/Bot/out, 2 them/Client/in,
\* 3 bot/AI/out, 4 admin/Admin/out) and every other code, a missing one
\* included, to unknown/Unknown/in, and it does not throw.
C17_TaxonomyAndFallback ==
    fnCall.op = "mapMessageData" =>
        LET code == fnCall.msg.typo
            m == fnResult.value
            Is(from, label, color) ==
                m.from = from /\ m.label = label /\ m.color = color
        IN  /\ ~fnResult.threw
            /\ m.type = code
            /\ code = 1 => Is("bot", "Bot", "out")
            /\ code = 2 => Is("them", "Client", "in")
            /\ code = 3 => Is("bot", "AI", "out")
            /\ code = 4 => Is("admin", "Admin", "out")
            /\ code \notin 1..4 => Is("unknown", "Unknown", "in")

\* The code 9 was mapped to the fallback.
C17_Witness ==
    /\ fnCall.op = "mapMessageData"
    /\ fnCall.msg.typo = 9
    /\ ~fnResult.threw
    /\ fnResult.value.from = "unknown" /\ fnResult.value.color = "in"

\* p is a data-URI prefix: 'data:', a media type without ';', ';base64,'.
IsDataUriPrefix(p) ==
    /\ Len(p) > Len(DataScheme) + Len(Base64Marker)
    /\ SubSeq(p, 1, Len(DataScheme)) = DataScheme
    /\ SubSeq(p, Len(p) - Len(Base64Marker) + 1, Len(p)) = Base64Marker
    /\ \A k \in (Len(DataScheme) + 1)..(Len(p) - Len(Base64Marker)) : p[k] # ";"

\* The payload after a data-URI prefix, if it has one.
AfterDataUri(s) ==
    IF \E n \in 1..Len(s) : IsDataUriPrefix(SubSeq(s, 1, n))
    THEN SubSeq(s, (CHOOSE n \in 1..Len(s) : IsDataUriPrefix(SubSeq(s, 1, n))) + 1, Len(s))
    ELSE s

\* s is base64: characters of the alphabet in groups of four, the last group
\* padded with '=' to four or left short with two or three characters.
ValidBase64(s) ==
    \E pad \in 0..2 :
        /\ pad <= Len(s)
        /\ \A k \in 1..(Len(s) - pad) : s[k] \in Base64Chars
        /\ \A k \in (Len(s) - pad + 1)..Len(s) : s[k] = "="
        /\ IF pad = 0 THEN (Len(s) % 4) # 1
           ELSE Len(s) % 4 = 0 /\ Len(s) - pad > 0

\* C18: for an audio-flagged message no exception escapes mapMessageData; a
\* payload that is not well-formed base64 gives audioUrl null; a blob URL is
\* produced only when the payload, after a data-URI prefix is stripped, is
\* valid base64.
C18_InvalidAudioHasNoHandle ==
    (fnCall.op = "mapMessageData" /\ fnCall.msg.isaudio) =>
        /\ ~fnResult.threw
        /\ fnResult.value.isAudio
        /\ ("audioUrl" \in DOMAIN fnResult.value) = (fnCall.msg.message # <<>>)
        /\ "audioUrl" \in DOMAIN fnResult.value =>
              /\ fnResult.value.audioUrl \in {Null, BlobUrl}
              /\ (fnCall.msg.message = NotAString
                  \/ ~ValidBase64(AfterDataUri(fnCall.msg.message)))
                    => fnResult.value.audioUrl = Null
              /\ fnResult.value.audioUrl = BlobUrl
                    => (/\ fnCall.msg.message # NotAString
                        /\ ValidBase64(AfterDataUri(fnCall.msg.message)))

\* A payload of the right alphabet and a length atob rejects, behind a
\* data-URI prefix, was mapped to a record with audioUrl null.
C18_Witness ==
    /\ fnCall.op = "mapMessageData"
    /\ fnCall.msg.isaudio
    /\ fnCall.msg.message = DataUriPrefix \o <<"A">>
    /\ ~fnResult.threw
    /\ fnResult.value.audioUrl = Null

\* The initials of a name whose words are separated by the characters of seps:
\* the first character of each word, uppercased, the first two of them.
WordStarts(name, seps) ==
    {i \in 1..Len(name) : name[i] \notin seps /\ (i = 1 \/ name[i - 1] \in seps)}

RECURSIVE CharsAt(_, _)
CharsAt(name, positions) ==
    IF positions = {} THEN <<>>
    ELSE LET i == CHOOSE i \in positions : \A j \in positions : i <= j
         IN  <<name[i]>> \o CharsAt(name, positions \ {i})

InitialsOf(name, seps) ==
    LET firsts == CharsAt(name, WordStarts(name, seps))
    IN  [i \in 1..(IF Len(firsts) < 2 THEN Len(firsts) ELSE 2) |-> UpperChar(firsts[i])]

\* What mapConversationData gives besides the initials: needsAttention is true
\* exactly without an interview, and messages is the mapped history in its
\* order, empty for an empty or missing history.
EntryMappedOtherwise ==
    LET number == fnCall.number
        mapped == fnResult.value
        history == IF "history" \in DOMAIN number THEN number.history ELSE <<>>
    IN  /\ ~fnResult.threw
        /\ mapped.needsAttention = ~number.interview
        /\ Len(mapped.messages) = Len(history)
        /\ \A i \in 1..Len(history) :
              /\ mapped.messages[i].id = history[i].id
              /\ mapped.messages[i] = MapMessageData(history[i])

\* C19 (as claimed): the initials of a mapped entry are the first characters
\* of the whitespace-separated words of the name, uppercased, at most two;
\* needsAttention is true exactly without an interview; messages is the mapped
\* history in order; an absent name gives undefined initials and no failure.
C19_InitialsOfWhitespaceTokens ==
    fnCall.op = "mapConversationData" =>
        /\ EntryMappedOtherwise
        /\ fnResult.value.initials =
              IF fnCall.number.name = Undefined THEN Undefined
              ELSE InitialsOf(fnCall.number.name, {" ", "\t"})

\* C19 (amended): the same with the words of the name being what the space
\* character separates; any other whitespace is part of a word.
C19_InitialsOfSpaceTokens ==
    fnCall.op = "mapConversationData" =>
        /\ EntryMappedOtherwise
        /\ fnResult.value.initials =
              IF fnCall.number.name = Undefined THEN Undefined
              ELSE InitialsOf(fnCall.number.name, {" "})

\* 'Ana Ruiz' without an interview and without a history was mapped to the
\* initials 'AR', needsAttention true and no messages.
C19_Witness ==
    /\ fnCall.op = "mapConversationData"
    /\ fnCall.number.name = AnaRuiz
    /\ "history" \notin DOMAIN fnCall.number
    /\ fnResult.value.initials = <<"A", "R">>
    /\ fnResult.value.needsAttention
    /\ fnResult.value.messages = <<>>

\* C20: emit(event, data) sends the event when this.socket is a connected
\* socket and does nothing else; otherwise it sends nothing, holds nothing
\* back for later delivery and leaves the service's fields as they are; no
\* other step, a later connect included, sends anything.
C20_EmitForwardsOnlyWhenConnected ==
    /\ [](sendBuffer = <<>>)
    /\ [][IF lastEvt' = "emit"
          THEN /\ wire' = IF socket = "connected"
                          THEN Append(wire, lastEmit')
                          ELSE wire
               /\ UNCHANGED <<socket, orphans, retryCount, reconnTimers, termErrors>>
          ELSE wire' = wire]_vars

\* 'typing' was emitted while the socket was connected and 'read' while the
\* service had no connected socket; a connect was delivered since, the socket
\* is connected and only 'typing' was sent.
C20_Witness ==
    /\ lastEmit = "read"
    /\ wire = <<"typing">>
    /\ socket = "connected"
    /\ lastEvt = "connect"

\* C21: at most one audio element is playing (not paused) at any time, and a
\* click that starts playback of one element leaves every other element
\* paused at position 0, whatever clicks came before.
C21_OneAudioPlaying ==
    /\ [](Cardinality({a \in AudioIds : ~audioPaused[a]}) <= 1)
    /\ [][\A a \in AudioIds :
            (audioPaused[a] /\ ~audioPaused'[a]) =>
                \A b \in AudioIds \ {a} : audioPaused'[b] /\ audioTime'[b] = 0]_vars

\* The latest click started element 2 while element 1 was playing: element 2
\* is playing, element 1 is paused at 0.
C21_Witness ==
    /\ audioLast = [audio |-> 2, playing |-> {1}]
    /\ ~audioPaused[2]
    /\ audioPaused[1] /\ audioTime[1] = 0
    /\ audioTime[2] > 0

\* C22 (as claimed): a connect event handled while a reconnection timer is
\* pending cancels the timer: no timer is pending after it, so none goes on
\* to run init() and to create a socket.
C22_ConnectCancelsTimer ==
    [][lastEvt' = "connect" => reconnTimers' = 0]_vars

\* C27 (as claimed): disconnect() schedules no reconnection, and once it has
\* left the service without a socket no socket is created any more.
C27_DisconnectIsFinal ==
    /\ [][(socket # "null" /\ socket' = "null") => reconnTimers' = reconnTimers]_vars
    /\ [][socket = "null" => socket' = "null"]_vars

(***************************************************************************)
(* Claims about overlapping refreshes and sends (SpecRefresh,              *)
(* SpecSendRefresh)                                                        *)
(***************************************************************************)
\* C23: when list requests overlap, every successful answer replaces the list
\* with its mapped data when it arrives and a failed one leaves the list, so
\* once all have completed state.conversations is the data of the successful
\* answer that arrived last, whichever request it answers.
C23_LastArrivalWins ==
    /\ []((loadReqs = <<>> /\ landed.req # 0) => state.conversations = landed.data)
    /\ [][Len(loadReqs') < Len(loadReqs) =>
            state'.conversations = IF landed' # landed THEN landed'.data
                                   ELSE state.conversations]_vars

\* Requests 1, 2 and 3 overlapped and their answers arrived out of order; the
\* successful answer that arrived last was the one to request 2, while
\* request 1 still awaited its answer, which then failed: the list is the
\* answer to request 2, Luis Paz before Ana Ruiz.
C23_Witness ==
    /\ loadReqs = <<>>
    /\ loadSeq = 3
    /\ landed.req = 2
    /\ landed.others = <<1>>
    /\ Len(state.conversations) = 2
    /\ state.conversations[1].number = 2
    /\ state.conversations[2].number = 1
    /\ lastUpdate = [isLoading |-> FALSE]

\* C30 (as claimed): state.isLoading is true exactly while at least one list
\* request of loadConversations awaits its answer.
C30_LoadingWhileInFlight ==
    state.isLoading = (loadReqs # <<>>)

\* Messages created by the operator's sends in the conversations of number n.
LocalMessages(st, n) ==
    LET Count(i) == Cardinality({j \in 1..Len(st.conversations[i].messages) :
                                    st.conversations[i].messages[j].id = LocalMessageId})
        RECURSIVE Sum(_)
        Sum(i) == IF i = 0 THEN 0
                  ELSE Sum(i - 1) + (IF st.conversations[i].number = n THEN Count(i) ELSE 0)
    IN  Sum(Len(st.conversations))

\* C26 (as claimed): when a sendIntervention to number N has succeeded, the
\* operator's message is added to the conversation whose number is N (when
\* the store holds one), also when the list was replaced between the request
\* and its answer.
C26_SentMessageFollowsNumber ==
    [][(/\ Len(textInFlight') < Len(textInFlight)
        /\ lastSend'.success
        /\ \E i \in 1..Len(state.conversations) :
              state.conversations[i].number = lastSend'.number) =>
          LocalMessages(state', lastSend'.number)
             = LocalMessages(state, lastSend'.number) + 1]_vars

\* C24 (as claimed): every blob URL created for a message is revoked when the
\* message is discarded or replaced, so the blob URLs that are not revoked
\* are those of the audio messages the store holds.
C24_DiscardedBlobsRevoked ==
    liveBlobs = BlobsCreated(state.conversations)

\* C25 (as claimed): no two conversations of state.conversations have the
\* same phone number, after any bulk loads and live message events.
C25_NumbersUnique ==
    \A i, j \in 1..Len(state.conversations) :
        state.conversations[i].number = state.conversations[j].number => i = j

\* Recorders that are recording.
ActiveRecorders == {r \in 1..Len(recorders) : recorders[r].status = "recording"}

\* No recording session: nothing is being recorded, no microphone request is
\* pending and no recorder has events left to deliver.
NoSession ==
    /\ ~isRecording
    /\ micPending = 0
    /\ \A r \in 1..Len(recorders) : recorders[r].status = "inactive"

\* C28 (as claimed): at most one voice-recording session exists at a time:
\* one microphone stream, one recorder that records, one timer interval, also
\* when the voice button is clicked again while microphone access is pending;
\* once the session has ended no stream is held and no interval is running.
C28_OneRecordingSession ==
    /\ streamsHeld <= 1
    /\ Cardinality(ActiveRecorders) <= 1
    /\ liveIntervals <= 1
    /\ NoSession => (streamsHeld = 0 /\ liveIntervals = 0)

\* How many elements of s equal m.
CountOf(s, m) == Cardinality({k \in 1..Len(s) : s[k] = m})

\* The rendered thread holds one element for each message of the active
\* conversation, no more and no fewer.
OneElementPerMessage ==
    LET i == GetActiveConversation
    IN  /\ i # 0
        /\ Len(threadDom.elements) = Len(state.conversations[i].messages)
        /\ \A k \in 1..Len(state.conversations[i].messages) :
              CountOf(threadDom.elements, state.conversations[i].messages[k])
                 = CountOf(state.conversations[i].messages, state.conversations[i].messages[k])

\* C29 (as claimed): after a message for the active conversation is handled
\* (a new-message event or a successful operator send), the rendered thread
\* holds exactly one element for each message of that conversation: the
\* re-render of the store update and the animated append never show the same
\* message twice.
C29_ThreadShowsEachMessageOnce == delivered => OneElementPerMessage

====
